---- MODULE Spec2Model ----
(***************************************************************************)
(* Model of the matrx-renderer render worker pool (internal/pixlet):       *)
(* WorkerPool (worker_pool.go) and Processor.RenderApp (processor.go).     *)
(* Strings the code inspects character by character (app ids, config      *)
(* values) are sequences of one-character strings.                         *)
(***************************************************************************)
EXTENDS Integers, Sequences, FiniteSets, TLC

(* ------------------------------ bounds -------------------------------- *)
\* number of concurrent RenderApp callers in the concurrent runs, each making one call
MaxCallers == 2
\* largest worker count handed to NewWorkerPool
MaxWorkersArg == 2
\* number of registry swaps (UpdateAppRegistry) in one run
MaxRefresh == 1
\* number of LoadApps calls on one AppRegistry
MaxLoads == 2
\* number of cache operations (Set, Get, FlushApp) in one run
MaxCacheOps == 3
\* number of messages the stream hands to one Consumer
MaxStreamMessages == 9
\* number of consumption sessions the AMQP Consumer's Start begins
MaxSessions == 12
\* number of goroutines that call RefreshAppRegistry, and of their calls in total
MaxRefreshers == 2
MaxRefreshCalls == 3

(* ------------------------- program constants -------------------------- *)
DefaultWorkers == 4
DefaultWidth == 64
DefaultHeight == 32
QueueFactor == 2
ResultChanCap == 1
MaxDurationMs == 15000
DefaultTimeout == 30


\* NewConsumer's default for maxWorkers
DefaultHandlers == 8
\* time.Second, in units of 5^9 ns
Second == 512
\* maxRetryDelay of the AMQP Consumer's Start: 30 * time.Second
MaxRetryDelay == 30 * Second

(* ------------------------------ strings ------------------------------- *)
\* strings.Contains(s, sub)
Contains(s, sub) ==
    \E i \in 1..(Len(s) - Len(sub) + 1) : SubSeq(s, i, i + Len(sub) - 1) = sub

Digit(d) == CASE d = 0 -> "0" [] d = 1 -> "1" [] d = 2 -> "2" [] d = 3 -> "3"
              [] d = 4 -> "4" [] d = 5 -> "5" [] d = 6 -> "6" [] d = 7 -> "7"
              [] d = 8 -> "8" [] d = 9 -> "9"

RECURSIVE NatDigits(_)
NatDigits(n) == IF n < 10 THEN <<Digit(n)>> ELSE NatDigits(n \div 10) \o <<Digit(n % 10)>>

\* fmt.Sprintf("%d", n)
FormatInt(n) == IF n < 0 THEN <<"-">> \o NatDigits(0 - n) ELSE NatDigits(n)

(* ------------------------------ inputs -------------------------------- *)
Clock == <<"c", "l", "k">>
Ghost == <<"g", "h">>
Traversal == <<".", ".", "/", "e">>
Nested == <<"a", "/", "b">>

\* a params value: interface{} holding a string, nil, an int or a bool
StrVal(s) == [t |-> "string", v |-> s]
NilVal == [t |-> "nil", v |-> <<>>]
IntVal(n) == [t |-> "int", v |-> n]

NoParams == [k \in {} |-> NilVal]
SomeParams == [k \in {"display_width", "n", "z"} |->
                 CASE k = "display_width" -> StrVal(<<"9">>)
                   [] k = "n" -> IntVal(-7)
                   [] k = "z" -> NilVal]

Device(id, w, h) == [ID |-> id, Width |-> w, Height |-> h]

Request(app, dev, params) == [AppID |-> app, Device |-> dev, Params |-> params]

\* the render requests a caller may make
Requests ==
    { Request(Clock, Device("d1", 64, 32), NoParams),
      Request(Clock, Device("d2", 10, 10), SomeParams),
      Request(Clock, Device("d3", 0, -5), NoParams),
      Request(Ghost, Device("d1", 64, 32), NoParams),
      Request(Traversal, Device("d2", 10, 10), NoParams),
      Request(Nested, Device("d1", 64, 32), NoParams) }

\* registries the refresh may load: app id sets (models.AppRegistry.apps keys)
Registries == { {Clock}, {Clock, Ghost} }


(* ------------------------------- values ------------------------------- *)
\* an error is its message text, as a sequence of pieces; nil is the empty one
NoError == <<>>
ErrInvalidAppID(appID) == <<"invalid app ID: ">> \o appID
ErrAppNotFound(appID) == <<"app not found: ">> \o appID
ErrStat == <<"failed to stat app path: ", "no such file or directory">>
ErrSuffix(appPath) == <<"app file must have suffix .star: ">> \o appPath
ErrLoadApplet == <<"failed to load applet: ", "syntax error">>
ErrRunApplet(inner) == <<"error running applet: ">> \o inner
ErrShuttingDown == <<"worker pool is shutting down">>
ErrEncode == <<"error encoding WebP: ", "encode failed">>
CtxCanceled == <<"context canceled">>
CtxDeadlineExceeded == <<"context deadline exceeded">>
ScriptFail == <<"fail() called">>

\* *encode.Screens; NilScreens is the nil pointer
NilScreens == [Nil |-> TRUE, Empty |-> TRUE, Width |-> 0, Height |-> 0]
Screens(empty, w, h) == [Nil |-> FALSE, Empty |-> empty, Width |-> w, Height |-> h]

\* pixlet.RenderResult: what a worker sends on job.Result
PoolResult(screens, err) == [Screens |-> screens, Error |-> err]
NoResult == PoolResult(NilScreens, NoError)

NoRequest == Request(<<>>, Device("", 0, 0), NoParams)

(* -------------------------- renderScreens, pure ----------------------- *)
InvalidAppID(appID) == Contains(appID, <<".", ".">>) \/ Contains(appID, <<"/">>)

ResolveWidth(dev) == IF dev.Width <= 0 THEN DefaultWidth ELSE dev.Width
ResolveHeight(dev) == IF dev.Height <= 0 THEN DefaultHeight ELSE dev.Height

\* the string a params value becomes in the engine's config
ConfigValue(val) ==
    CASE val.t = "string" -> val.v
      [] val.t = "nil" -> <<>>
      [] OTHER -> FormatInt(val.v)

\* a config in which the caller's display_width and display_height survive
EngineConfigKeepingCaller(req) ==
    [k \in (DOMAIN req.Params) \cup {"display_width", "display_height"} |->
        IF k \in DOMAIN req.Params THEN ConfigValue(req.Params[k])
        ELSE IF k = "display_width" THEN FormatInt(ResolveWidth(req.Device))
        ELSE FormatInt(ResolveHeight(req.Device))]

\* the config renderScreens hands to applet.RunWithConfig
EngineConfig(req) ==
    [k \in (DOMAIN req.Params) \cup {"display_width", "display_height"} |->
        IF k = "display_width" THEN FormatInt(ResolveWidth(req.Device))
        ELSE IF k = "display_height" THEN FormatInt(ResolveHeight(req.Device))
        ELSE ConfigValue(req.Params[k])]

\* what the file system and the applet loader may answer for a registered app
LoadOutcomes == {"ok", "stat", "suffix", "load"}

\* AppManifest.StarFilePath of a registered app: its directory joined with the
\* manifest's fileName, which need not end in .star
StarFilePath(appID, load) ==
    <<"apps/">> \o appID \o (IF load = "suffix" THEN <<"/main.txt">> ELSE <<"/main.star">>)

\* how applet.RunWithConfig may end, besides being cancelled through wp.ctx
RunOutcomes == {"frames", "empty", "fail", "deadline"}

\* renderScreens without the app id check
PrepareErrorNoIdCheck(appID, registry, load) ==
    IF appID \notin registry THEN ErrAppNotFound(appID)
    ELSE IF load = "stat" THEN ErrStat
    ELSE IF load = "suffix" THEN ErrSuffix(StarFilePath(appID, load))
    ELSE IF load = "load" THEN ErrLoadApplet
    ELSE NoError

\* renderScreens that does not give up on an app the registry lacks
PrepareErrorNoLookup(appID, registry, load) ==
    IF InvalidAppID(appID) THEN ErrInvalidAppID(appID)
    ELSE IF load = "stat" THEN ErrStat
    ELSE IF load = "suffix" THEN ErrSuffix(StarFilePath(appID, load))
    ELSE IF load = "load" THEN ErrLoadApplet
    ELSE NoError

\* renderScreens before the lock: the error it returns early, or NoError
PrepareError(appID, registry, load) ==
    IF InvalidAppID(appID) THEN ErrInvalidAppID(appID)
    ELSE IF appID \notin registry THEN ErrAppNotFound(appID)
    ELSE IF load = "stat" THEN ErrStat
    ELSE IF load = "suffix" THEN ErrSuffix(StarFilePath(appID, load))
    ELSE IF load = "load" THEN ErrLoadApplet
    ELSE NoError

(* --------------------------- NewWorkerPool ---------------------------- *)
NewWorkerCountAsGiven(n) == n
NewWorkerCount(n) == IF n <= 0 THEN DefaultWorkers ELSE n
NewQueueCap(n) == NewWorkerCount(n) * QueueFactor

\* a NewProcessor that hands cfg.RenderTimeout on as it is
ProcessorTimeoutAsConfigured(renderTimeout) == renderTimeout

\* NewProcessor / NewProcessorWithRedis: the timeout handed to NewWorkerPool
ProcessorTimeout(renderTimeout) ==
    IF renderTimeout <= 0 THEN DefaultTimeout ELSE renderTimeout

\* NewWorkerPool stores the timeout it is given
NewPoolTimeout(t) == t

\* secondsToDuration(wp.timeout) has already passed when the engine call starts
Expired(seconds) == seconds <= 0

(* ------------------------ RenderApp, pure part ------------------------ *)
B64Alphabet ==
    << "A","B","C","D","E","F","G","H","I","J","K","L","M","N","O","P",
       "Q","R","S","T","U","V","W","X","Y","Z","a","b","c","d","e","f",
       "g","h","i","j","k","l","m","n","o","p","q","r","s","t","u","v",
       "w","x","y","z","0","1","2","3","4","5","6","7","8","9","+","/" >>
B64Char(n) == B64Alphabet[n + 1]

RECURSIVE Base64(_)
\* base64.StdEncoding.EncodeToString
Base64(b) ==
    IF Len(b) = 0 THEN <<>>
    ELSE IF Len(b) = 1 THEN
        << B64Char(b[1] \div 4), B64Char((b[1] % 4) * 16), "=", "=" >>
    ELSE IF Len(b) = 2 THEN
        << B64Char(b[1] \div 4), B64Char((b[1] % 4) * 16 + b[2] \div 16),
           B64Char((b[2] % 16) * 4), "=" >>
    ELSE << B64Char(b[1] \div 4), B64Char((b[1] % 4) * 16 + b[2] \div 16),
            B64Char((b[2] % 16) * 4 + b[3] \div 64), B64Char(b[3] % 64) >>
         \o Base64(SubSeq(b, 4, Len(b)))

\* what screens.EncodeWebP may answer: bytes, or an error
EncodeOutcomes == { [ok |-> TRUE, data |-> <<82, 73, 70, 70>>],
                    [ok |-> FALSE, data |-> <<>>] }

\* a record that carries the app id in place of the device id
RecordWithAppAsDevice(uuid, request, output, failed) ==
    [Type |-> "render_result", UUID |-> uuid, DeviceID |-> request.AppID,
     AppID |-> request.AppID, RenderOutput |-> output, Error |-> failed]

\* models.RenderResult as RenderApp fills it (ProcessedAt left out: wall clock)
Record(uuid, request, output, failed) ==
    [Type |-> "render_result", UUID |-> uuid, DeviceID |-> request.Device.ID,
     AppID |-> request.AppID, RenderOutput |-> output, Error |-> failed]

\* a RenderApp that reports a failed render as not failed
RenderAppReturnErrorUnflagged(uuid, request, screens, err, enc) ==
    IF err # NoError
    THEN [result |-> Record(uuid, request, <<>>, FALSE), err |-> err]
    ELSE IF screens.Empty
    THEN [result |-> Record(uuid, request, <<>>, FALSE), err |-> NoError]
    ELSE IF ~enc.ok
    THEN [result |-> Record(uuid, request, <<>>, TRUE), err |-> ErrEncode]
    ELSE [result |-> Record(uuid, request, Base64(enc.data), FALSE), err |-> NoError]

\* RenderApp after renderScreens returned (screens, err): the record and the error
RenderAppReturn(uuid, request, screens, err, enc) ==
    IF err # NoError
    THEN [result |-> Record(uuid, request, <<>>, TRUE), err |-> err]
    ELSE IF screens.Empty
    THEN [result |-> Record(uuid, request, <<>>, FALSE), err |-> NoError]
    ELSE IF ~enc.ok
    THEN [result |-> Record(uuid, request, <<>>, TRUE), err |-> ErrEncode]
    ELSE [result |-> Record(uuid, request, Base64(enc.data), FALSE), err |-> NoError]

\* the nil *models.RenderResult
NilRecord == [Type |-> "", UUID |-> 0, DeviceID |-> "", AppID |-> <<>>,
              RenderOutput |-> <<>>, Error |-> FALSE]

NoReturn == [result |-> NilRecord, err |-> NoError]

(* ----------------------- RenderPreview, pure part --------------------- *)
UpperLetters == SubSeq(B64Alphabet, 1, 26)
LowerLetters == SubSeq(B64Alphabet, 27, 52)

\* strings.ToLower, one character and a string
ToLowerChar(ch) ==
    IF \E i \in 1..26 : UpperLetters[i] = ch
    THEN LowerLetters[CHOOSE i \in 1..26 : UpperLetters[i] = ch]
    ELSE ch
ToLower(str) == [i \in 1..Len(str) |-> ToLowerChar(str[i])]

Webp == <<"w", "e", "b", "p">>

\* the formats RenderPreview may be asked for
Formats == { Webp, <<"W", "e", "b", "P">>, <<"g", "i", "f">>, <<>> }

ErrUnsupportedFormat(format) ==
    <<"unsupported format: ">> \o format \o <<" (only webp is supported)">>

\* RenderPreview after renderScreens returned (screens, err): the bytes and the error
RenderPreviewReturn(screens, err, format, enc) ==
    IF err # NoError
    THEN [data |-> <<>>, err |-> err]
    ELSE IF ToLower(format) # Webp
    THEN [data |-> <<>>, err |-> ErrUnsupportedFormat(format)]
    ELSE IF ~enc.ok
    THEN [data |-> <<>>, err |-> ErrEncode]
    ELSE [data |-> enc.data, err |-> NoError]

(* ------------- EventHandler.Handle and the stream consumer ------------ *)
RequestType == "render_request"

\* a stream message: no payload string, a payload that is not JSON, or a payload
\* json.Unmarshal turns into a request with the given type
Message(payload, type, request) == [payload |-> payload, Type |-> type, request |-> request]

\* the messages the stream may hold
Messages ==
    { Message("none", "", NoRequest),
      Message("garbage", "", NoRequest),
      Message("request", RequestType, Request(Clock, Device("d1", 64, 32), NoParams)),
      Message("request", RequestType, Request(Ghost, Device("d2", 10, 10), NoParams)),
      Message("request", "ping", Request(Clock, Device("d1", 64, 32), NoParams)),
      Message("request", RequestType, Request(<<>>, Device("d1", 64, 32), NoParams)),
      Message("request", RequestType, Request(Clock, Device("", 64, 32), NoParams)) }

ErrInvalidType(type) == <<"invalid request type: ", type>>
ErrAppIDRequired == <<"app_id is required">>
ErrDeviceIDRequired == <<"device.id is required">>

\* EventHandler.Handle's checks before it calls RenderApp: the error, or NoError
ValidationError(m) ==
    IF m.Type # RequestType THEN ErrInvalidType(m.Type)
    ELSE IF m.request.AppID = <<>> THEN ErrAppIDRequired
    ELSE IF m.request.Device.ID = "" THEN ErrDeviceIDRequired
    ELSE NoError

\* the record Handle and the consumer build when they have an error: its Error
\* field is not set
ErrorResult(uuid, request) ==
    [Type |-> "render_result", UUID |-> uuid, DeviceID |-> request.Device.ID,
     AppID |-> request.AppID, RenderOutput |-> <<>>, Error |-> FALSE]

\* what EventHandler.Handle returns for message m, given what RenderApp returned
HandleReturn(uuid, m, rendered) ==
    IF ValidationError(m) # NoError
    THEN [result |-> NilRecord, err |-> ValidationError(m)]
    ELSE IF rendered.err # NoError
    THEN [result |-> ErrorResult(uuid, m.request), err |-> rendered.err]
    ELSE [result |-> rendered.result, err |-> NoError]

\* a consumer that publishes whatever Handle returned
PublishedResultAsHandled(uuid, m, rendered) == HandleReturn(uuid, m, rendered).result

\* the record handleStreamMessage hands to PublishRenderResult
PublishedResult(uuid, m, rendered) ==
    IF HandleReturn(uuid, m, rendered).err # NoError
    THEN ErrorResult(uuid, m.request)
    ELSE HandleReturn(uuid, m, rendered).result

(* ------------------------------- runs --------------------------------- *)
\* A run fixes what its environment may do: how many callers there are and which
\* requests they make, the worker count NewWorkerPool is given, the answers the
\* file system, the engine and the encoder may give, how often the registry is
\* refreshed, and whether Stop is called and callers cancel.
Run(callers, workersArg, requests, loads, engine, encodes, refresh, stop, cancel) ==
    [callers |-> callers, workersArg |-> workersArg, requests |-> requests,
     loads |-> loads, engine |-> engine, encodes |-> encodes, refresh |-> refresh,
     stop |-> stop, cancel |-> cancel,
     \* the pool is made by NewProcessor from cfg.RenderTimeout = timeoutArg, or,
     \* when direct, by a NewWorkerPool call given timeoutArg itself
     timeoutArg |-> 0, direct |-> FALSE,
     \* the formats RenderPreview is called with, the stream messages consumed
     formats |-> {}, messages |-> {},
     \* the deliveries the AMQP consumer is handed
     deliveries |-> {}]

EncodeOk == { e \in EncodeOutcomes : e.ok }
\* requests for the registered app from devices of different sizes
ClockRequests == { r \in Requests : r.AppID = Clock /\ r.Device.Width > 0 }
OneRequest == { Request(Clock, Device("d1", 64, 32), NoParams) }

\* one caller and one worker: every input and every outcome, registry refreshes,
\* Stop and cancellation
OutcomeRuns ==
    { Run(1, 1, Requests, LoadOutcomes, RunOutcomes, EncodeOutcomes, MaxRefresh, TRUE, TRUE) }

\* NewWorkerPool given no worker count: the default pool, started and stopped
DefaultRuns ==
    { Run(1, n, OneRequest, {"ok"}, {"frames"}, EncodeOk, 0, TRUE, FALSE) : n \in {-1, 0} }

\* concurrent renders of different dimensions
MutexRuns ==
    { Run(MaxCallers, MaxWorkersArg, ClockRequests, {"ok"}, {"frames", "empty", "fail"},
          EncodeOk, 0, FALSE, FALSE) }

\* callers cancelling while their jobs are queued or rendered
CancelRuns ==
    { Run(MaxCallers, 1, OneRequest, {"ok"}, {"frames"}, EncodeOk, 0, FALSE, TRUE) }

\* Stop racing with queued and rendering jobs: one caller more than the one worker
\* renders at a time, so that a job is queued while another is in flight
StopCallers == NewWorkerCount(1) + 1
StopRuns ==
    { Run(StopCallers, 1, OneRequest, {"ok"}, {"frames"}, EncodeOk, 0, TRUE, FALSE) }

\* one caller more than one worker and its full queue can hold
AdmissionCallers == NewWorkerCount(1) + NewQueueCap(1) + 1
AdmissionRuns ==
    { Run(AdmissionCallers, 1, OneRequest, {"ok"}, {"frames"}, EncodeOk, 0, FALSE, TRUE) }

\* the render timeouts a pool is configured or constructed with
TimeoutArgs == {-1, 0, 45}

\* pools made by NewProcessor from cfg.RenderTimeout, and pools made by a direct
\* NewWorkerPool call, for each timeout
TimeoutRuns ==
    { [Run(1, 1, OneRequest, {"ok"}, {"frames", "deadline"}, EncodeOk, 0, FALSE, FALSE)
          EXCEPT !.timeoutArg = t, !.direct = d] : t \in TimeoutArgs, d \in BOOLEAN }

\* RenderPreview calls, for a registered and an unregistered app
PreviewRuns ==
    { [Run(1, 1, { r \in Requests : r.Device.ID = "d1" /\ ~InvalidAppID(r.AppID) },
           {"ok"}, {"frames", "fail"}, EncodeOutcomes, 0, FALSE, FALSE)
          EXCEPT !.formats = Formats] }

\* the stream consumer handling one message, its context possibly cancelled
ConsumerRuns ==
    { [Run(1, 1, {}, {"ok"}, {"frames", "empty", "fail"}, EncodeOutcomes, 0, FALSE, TRUE)
          EXCEPT !.messages = Messages] }

\* the bodies of AMQP deliveries: bytes that json.Unmarshal rejects or turns into
\* a request
Deliveries == { m \in Messages : m.payload # "none" }

\* the AMQP consumer handling one delivery
AmqpRuns ==
    { [Run(1, 1, {}, {"ok"}, {"frames", "fail"}, EncodeOutcomes, 0, FALSE, FALSE)
          EXCEPT !.deliveries = Deliveries] }

Runs == OutcomeRuns \cup DefaultRuns \cup MutexRuns \cup CancelRuns \cup StopRuns
            \cup AdmissionRuns \cup TimeoutRuns \cup PreviewRuns \cup ConsumerRuns
            \cup AmqpRuns

(* ------------------------------- state -------------------------------- *)
VARIABLES
    run,          \* the run's environment: callers, inputs and outcomes it draws from
    workers,      \* WorkerPool.workers
    queueCap,     \* cap(WorkerPool.jobQueue)
    timeout,      \* WorkerPool.timeout, in seconds
    started,      \* Start has run
    jobQueue,     \* WorkerPool.jobQueue: the buffered jobs, each named by its caller
    queueClosed,  \* close(wp.jobQueue) has run
    poolCtxDone,  \* wp.ctx is cancelled
    wg,           \* WorkerPool.wg counter
    stopPc,       \* where Stop is: "none", "cancelled", "closed", "returned"
    appRegistry,  \* WorkerPool.appRegistry: the app ids of the registry written last
    written,      \* the registries an unsynchronised read of wp.appRegistry may observe
    refreshes,    \* UpdateAppRegistry calls so far
    renderMu,     \* the render mutex: 0 when free, else the worker holding it
    globals,      \* globals.Width/Height and render.FrameWidth/FrameHeight
    wpc,          \* each worker's position
    wjob,         \* the job a worker claimed (its caller), 0 if none
    wres,         \* the (screens, err) a worker's renderScreens produced
    wcfg,         \* renderScreens' config, as handed to applet.RunWithConfig
    wctx,         \* renderScreens' ctx: its parent context and its timeout in seconds
    cpc,          \* each caller's position in RenderApp/Submit
    req,          \* each caller's request
    ctxDone,      \* each caller's context is cancelled
    resultChan,   \* each job's Result channel buffer
    chanClosed,   \* each job's Result channel is closed
    ret,          \* what Submit returned to each caller
    record,       \* what RenderApp returned to each caller
    op,           \* the entry point each caller came through, and RenderPreview's format
    preview,      \* what RenderPreview returned to each caller
    msg,          \* the stream message each consumer goroutine handles
    pub,          \* per message: the results handed to PublishRenderResult, and the ack
    hist,         \* per job: what happened to it (history, read by no action)
    http,         \* the HTTP exchange at hand: the request, what it meets, the response
    reg,          \* an AppRegistry, the directory LoadApps reads, and the loads so far
    rcache,       \* the Redis keyspace the app caches share, and who wrote and deleted what
    cons,         \* the Redis stream Consumer: its Start loop, semaphore, wg and handlers
    conn,         \* the reconnecting AMQP Consumer: its Start loop, retry delay and count
    proc          \* the Processor's registry, its pool's registry, and the refreshes under way

vars == << run, workers, queueCap, timeout, started, jobQueue, queueClosed, poolCtxDone, wg, stopPc,
           appRegistry, written, refreshes, renderMu, globals, wpc, wjob, wres, wcfg, wctx, cpc, req,
           ctxDone, resultChan, chanClosed, ret, record, op, preview, msg, pub, hist,
           http, reg, rcache, cons, conn, proc >>

\* the state of the HTTP handlers, of a stand-alone AppRegistry and of the Redis cache
libVars == << http, reg, rcache, cons, conn, proc >>
\* the state of the worker pool, its callers and the consumers
coreVars == << run, workers, queueCap, timeout, started, jobQueue, queueClosed, poolCtxDone, wg,
               stopPc, appRegistry, written, refreshes, renderMu, globals, wpc, wjob, wres, wcfg,
               wctx, cpc, req, ctxDone, resultChan, chanClosed, ret, record, op, preview, msg, pub,
               hist >>

poolVars == << run, workers, queueCap, timeout, started, queueClosed, poolCtxDone, wg, stopPc >>
callerVars == << cpc, req, ctxDone, ret, record, op, preview, msg, pub >>
workerVars == << wpc, wjob, wres, wcfg, wctx >>

\* a Start that launches one goroutine more than wp.workers
WorkersOneMore == 1..(workers + 1)

Workers == 1..workers
Callers == 1..run.callers

NoHist == [pushed |-> FALSE, afterStop |-> FALSE, queuedAtStop |-> FALSE,
           inFlightAtStop |-> FALSE, claims |-> 0, lookups |-> 0, locks |-> 0,
           engineCalls |-> 0, sends |-> 0, absentAtLookup |-> FALSE,
           staleLookup |-> FALSE]

\* worker locals before renderScreens has made them
NoConfig == [k \in {} |-> <<>>]
NoCtx == [parent |-> "none", seconds |-> 0]

\* caller locals before the call
NoOp == [name |-> "none", format |-> <<>>]
NoPreview == [data |-> <<>>, err |-> NoError]
NoMessage == [payload |-> "idle", Type |-> "", request |-> NoRequest]
\* what handleStreamMessage has done with its message: the results handed to
\* PublishRenderResult, whether that call returned nil, whether XACK went through;
\* for an AMQP delivery the Ack and Nack calls made on it
NoPub == [attempts |-> <<>>, published |-> FALSE, acked |-> FALSE, settled |-> <<>>]

Dims(w, h) == [Width |-> w, Height |-> h, FrameWidth |-> w, FrameHeight |-> h]

\* the state after NewWorkerPool(r.workersArg, ...) in a run with environment r
InitRun(r) ==
    /\ run = r
    /\ workers = NewWorkerCount(r.workersArg)
    /\ queueCap = NewQueueCap(r.workersArg)
    /\ timeout = NewPoolTimeout(IF r.direct THEN r.timeoutArg
                                ELSE ProcessorTimeout(r.timeoutArg))
    /\ started = FALSE
    /\ jobQueue = <<>>
    /\ queueClosed = FALSE
    /\ poolCtxDone = FALSE
    /\ wg = 0
    /\ stopPc = "none"
    /\ appRegistry = {Clock}
    /\ written = {{Clock}}
    /\ refreshes = 0
    /\ renderMu = 0
    /\ globals = Dims(DefaultWidth, DefaultHeight)
    /\ wpc = [w \in Workers |-> "off"]
    /\ wjob = [w \in Workers |-> 0]
    /\ wres = [w \in Workers |-> NoResult]
    /\ wcfg = [w \in Workers |-> NoConfig]
    /\ wctx = [w \in Workers |-> NoCtx]
    /\ cpc = [c \in Callers |-> "idle"]
    /\ req = [c \in Callers |-> NoRequest]
    /\ ctxDone = [c \in Callers |-> FALSE]
    /\ resultChan = [c \in Callers |-> <<>>]
    /\ chanClosed = [c \in Callers |-> FALSE]
    /\ ret = [c \in Callers |-> NoResult]
    /\ record = [c \in Callers |-> NoReturn]
    /\ op = [c \in Callers |-> NoOp]
    /\ preview = [c \in Callers |-> NoPreview]
    /\ msg = [c \in Callers |-> NoMessage]
    /\ pub = [c \in Callers |-> NoPub]
    /\ hist = [c \in Callers |-> NoHist]

\* no HTTP request served, no directory loaded, nothing cached
NoExchange == [kind |-> "none"]
NoRegistry == [apps |-> {}]
NoKeyspace == [keys |-> {}]
NoConsumer == [pc |-> "none"]
NoConnection == [pc |-> "none"]
NoProcessor == [pc |-> "none"]
LoopsIdle == cons = NoConsumer /\ conn = NoConnection /\ proc = NoProcessor
LibIdle == http = NoExchange /\ reg = NoRegistry /\ rcache = NoKeyspace /\ LoopsIdle

Init == LibIdle /\ \E r \in Runs : InitRun(r)

(* ------------------------- WorkerPool: lifecycle ----------------------- *)
\* Start: wg.Add(1) and go wp.worker(i) for each of the wp.workers workers
Start ==
    /\ ~started
    /\ started' = TRUE
    /\ wg' = wg + workers
    /\ wpc' = [w \in Workers |-> "idle"]
    /\ UNCHANGED << libVars, run, workers, queueCap, timeout, jobQueue, queueClosed, poolCtxDone, stopPc,
                    appRegistry, written, refreshes, renderMu, globals, wjob, wres, wcfg, wctx,
                    callerVars, resultChan, chanClosed, hist >>

\* the jobs a worker has claimed and not yet delivered
InFlight == { wjob[w] : w \in { x \in Workers : wjob[x] # 0 } }
\* the jobs sitting in the queue
Queued == { jobQueue[i] : i \in 1..Len(jobQueue) }

\* Stop, first statement: wp.cancel()
StopCancel ==
    /\ run.stop
    /\ started
    /\ stopPc = "none"
    /\ poolCtxDone' = TRUE
    /\ stopPc' = "cancelled"
    /\ hist' = [c \in Callers |->
                  [hist[c] EXCEPT !.queuedAtStop = (c \in Queued),
                                  !.inFlightAtStop = (c \in InFlight)]]
    /\ UNCHANGED << libVars, run, workers, queueCap, timeout, started, jobQueue, queueClosed, wg,
                    appRegistry, written, refreshes, renderMu, globals, workerVars,
                    callerVars, resultChan, chanClosed >>

\* Stop, second statement: close(wp.jobQueue)
StopClose ==
    /\ stopPc = "cancelled"
    /\ queueClosed' = TRUE
    /\ stopPc' = "closed"
    /\ UNCHANGED << libVars, run, workers, queueCap, timeout, started, jobQueue, poolCtxDone, wg,
                    appRegistry, written, refreshes, renderMu, globals, workerVars,
                    callerVars, resultChan, chanClosed, hist >>

\* a Stop that does not wait for the workers
WaitSkipped == TRUE

\* wg.Wait() returns when the counter is zero
WaitDone == wg = 0

\* Stop, third statement: wp.wg.Wait(), then Stop returns
StopReturn ==
    /\ stopPc = "closed"
    /\ WaitDone
    /\ stopPc' = "returned"
    /\ UNCHANGED << libVars, run, workers, queueCap, timeout, started, jobQueue, queueClosed, poolCtxDone,
                    wg, appRegistry, written, refreshes, renderMu, globals, workerVars,
                    callerVars, resultChan, chanClosed, hist >>

\* UpdateAppRegistry: wp.appRegistry = registry
UpdateAppRegistry(registry) ==
    /\ refreshes < run.refresh
    /\ appRegistry' = registry
    /\ written' = written \cup {registry}
    /\ refreshes' = refreshes + 1
    /\ UNCHANGED << libVars, poolVars, jobQueue, renderMu, globals, workerVars, callerVars,
                    resultChan, chanClosed, hist >>

(* ------------------------ RenderApp and Submit ------------------------ *)
\* RenderApp is called with a request; Submit makes the job and its Result channel.
\* Callers are numbered in the order of their calls.
RenderAppCall(c, request) ==
    /\ started
    /\ request \in run.requests
    /\ cpc[c] = "idle"
    /\ \A d \in Callers : d < c => cpc[d] # "idle"
    /\ req' = [req EXCEPT ![c] = request]
    /\ op' = [op EXCEPT ![c] = [name |-> "RenderApp", format |-> <<>>]]
    /\ cpc' = [cpc EXCEPT ![c] = "send"]
    /\ hist' = [hist EXCEPT ![c].afterStop = poolCtxDone]
    /\ UNCHANGED << libVars, poolVars, jobQueue, appRegistry, written, refreshes, renderMu, globals,
                    workerVars, ctxDone, ret, record, preview, msg, pub, resultChan, chanClosed >>

\* RenderPreview is called with a request and a format; its first statement is
\* renderScreens -> Submit
RenderPreviewCall(c, request, format) ==
    /\ started
    /\ request \in run.requests
    /\ format \in run.formats
    /\ cpc[c] = "idle"
    /\ \A d \in Callers : d < c => cpc[d] # "idle"
    /\ req' = [req EXCEPT ![c] = request]
    /\ op' = [op EXCEPT ![c] = [name |-> "RenderPreview", format |-> format]]
    /\ cpc' = [cpc EXCEPT ![c] = "send"]
    /\ hist' = [hist EXCEPT ![c].afterStop = poolCtxDone]
    /\ UNCHANGED << libVars, poolVars, jobQueue, appRegistry, written, refreshes, renderMu, globals,
                    workerVars, ctxDone, ret, record, preview, msg, pub, resultChan, chanClosed >>

\* the stream entries that were handed to a consumer of the group: each is in the
\* group's pending list until it is acknowledged
Delivered == { c \in Callers : op[c].name = "Message" }
PendingEntries == { c \in Delivered : ~pub[c].acked }

\* ReadFromStream: XReadGroup with the id ">" returns entries never delivered to a
\* consumer of the group
ReadFromStream == { c \in Callers : c \notin Delivered /\ cpc[c] = "idle" }

\* handleStreamMessage is started for a message: the payload is extracted and
\* unmarshalled, Handle validates the request and calls RenderApp
ConsumerReceive(c, m) ==
    /\ started
    /\ m \in run.messages
    /\ c \in ReadFromStream
    /\ \A d \in Callers : d < c => cpc[d] # "idle"
    /\ msg' = [msg EXCEPT ![c] = m]
    /\ op' = [op EXCEPT ![c] = [name |-> "Message", format |-> <<>>]]
    /\ req' = [req EXCEPT ![c] = m.request]
    /\ cpc' = [cpc EXCEPT ![c] =
                  IF m.payload # "request" THEN "ack"
                  ELSE IF ValidationError(m) # NoError THEN "publish"
                  ELSE "send"]
    /\ hist' = [hist EXCEPT ![c].afterStop = poolCtxDone]
    /\ UNCHANGED << libVars, poolVars, jobQueue, appRegistry, written, refreshes, renderMu, globals,
                    workerVars, ctxDone, ret, record, preview, pub, resultChan, chanClosed >>

\* a handler that acknowledges whether or not the publish went through
PublishThenAcknowledge(c, ok) ==
    /\ cpc[c] = "publish"
    /\ pub' = [pub EXCEPT ![c].attempts = Append(@, PublishedResult(c, msg[c], record[c])),
                          ![c].published = ok]
    /\ cpc' = [cpc EXCEPT ![c] = "ack"]
    /\ UNCHANGED << libVars, poolVars, jobQueue, appRegistry, written, refreshes, renderMu, globals,
                    workerVars, req, ctxDone, ret, record, op, preview, msg, resultChan,
                    chanClosed, hist >>

\* c.client.PublishRenderResult(result): one attempt, which may fail; on failure
\* handleStreamMessage returns without acknowledging
Publish(c, ok) ==
    /\ cpc[c] = "publish"
    /\ pub' = [pub EXCEPT ![c].attempts = Append(@, PublishedResult(c, msg[c], record[c])),
                          ![c].published = ok]
    /\ cpc' = [cpc EXCEPT ![c] = IF ok THEN "ack" ELSE "done"]
    /\ UNCHANGED << libVars, poolVars, jobQueue, appRegistry, written, refreshes, renderMu, globals,
                    workerVars, req, ctxDone, ret, record, op, preview, msg, resultChan,
                    chanClosed, hist >>

\* c.client.AcknowledgeMessage(c.ctx, msg.ID), which may fail
Acknowledge(c, ok) ==
    /\ cpc[c] = "ack"
    /\ pub' = [pub EXCEPT ![c].acked = ok]
    /\ cpc' = [cpc EXCEPT ![c] = "done"]
    /\ UNCHANGED << libVars, poolVars, jobQueue, appRegistry, written, refreshes, renderMu, globals,
                    workerVars, req, ctxDone, ret, record, op, preview, msg, resultChan,
                    chanClosed, hist >>

(* -------------------------- the AMQP consumer ------------------------- *)
\* msg.Nack(false, false), msg.Nack(false, true), msg.Ack(false)
Nack == "nack"
NackRequeue == "nack requeue"
Ack == "ack"

\* handleMessage is started for a delivery: a body that does not unmarshal is
\* rejected with Nack(false, false); otherwise Handle validates the request and
\* calls RenderApp. A request Handle rejects goes straight on to the publish.
HandleMessage(c, m) ==
    /\ started
    /\ m \in run.deliveries
    /\ cpc[c] = "idle"
    /\ \A d \in Callers : d < c => cpc[d] # "idle"
    /\ msg' = [msg EXCEPT ![c] = m]
    /\ op' = [op EXCEPT ![c] = [name |-> "Delivery", format |-> <<>>]]
    /\ req' = [req EXCEPT ![c] = m.request]
    /\ cpc' = [cpc EXCEPT ![c] =
                  IF m.payload # "request" THEN "done"
                  ELSE IF ValidationError(m) # NoError THEN "publishResult"
                  ELSE "send"]
    /\ pub' = [pub EXCEPT ![c].settled = IF m.payload # "request" THEN <<Nack>> ELSE <<>>]
    /\ hist' = [hist EXCEPT ![c].afterStop = poolCtxDone]
    /\ UNCHANGED << libVars, poolVars, jobQueue, appRegistry, written, refreshes, renderMu, globals,
                    workerVars, ctxDone, ret, record, preview, resultChan, chanClosed >>

\* a handleMessage that requeues every delivery whose result was not published
SettlementRequeueing(ok, err) == IF ~ok THEN <<NackRequeue>> ELSE <<Ack>>

\* a handleMessage whose failed-publish branch does not return
SettlementFallingThrough(ok, err) ==
    IF ~ok THEN (IF err = NoError THEN <<NackRequeue>> ELSE <<Ack>>) \o <<Ack>>
    ELSE <<Ack>>

\* the Ack and Nack calls handleMessage makes once PublishResult has returned:
\* after a failed publish a rendered result is requeued and an error result
\* acknowledged; after a successful publish the delivery is acknowledged
Settlement(ok, err) ==
    IF ~ok THEN (IF err = NoError THEN <<NackRequeue>> ELSE <<Ack>>)
    ELSE <<Ack>>

\* c.conn.PublishResult(ctx, result), which may fail, and the settlement of the
\* delivery that follows it
PublishResult(c, ok) ==
    /\ cpc[c] = "publishResult"
    /\ pub' = [pub EXCEPT ![c].attempts = Append(@, PublishedResult(c, msg[c], record[c])),
                          ![c].published = ok,
                          ![c].settled =
                              @ \o Settlement(ok, HandleReturn(c, msg[c], record[c]).err)]
    /\ cpc' = [cpc EXCEPT ![c] = "done"]
    /\ UNCHANGED << libVars, poolVars, jobQueue, appRegistry, written, refreshes, renderMu, globals,
                    workerVars, req, ctxDone, ret, record, op, preview, msg, resultChan,
                    chanClosed, hist >>

\* a queue without a capacity
CanEnqueueUnbounded == ~queueClosed

\* a send on wp.jobQueue can proceed: the channel is open and its buffer has room
CanEnqueue == ~queueClosed /\ Len(jobQueue) < queueCap

\* first select, case wp.jobQueue <- job
SubmitEnqueue(c) ==
    /\ cpc[c] = "send"
    /\ CanEnqueue
    /\ jobQueue' = Append(jobQueue, c)
    /\ cpc' = [cpc EXCEPT ![c] = "wait"]
    /\ hist' = [hist EXCEPT ![c].pushed = TRUE]
    /\ UNCHANGED << libVars, poolVars, appRegistry, written, refreshes, renderMu, globals, workerVars,
                    req, ctxDone, ret, record, op, preview, msg, pub, resultChan, chanClosed >>

\* first select, case wp.jobQueue <- job on the closed channel: the send panics
SubmitSendPanic(c) ==
    /\ cpc[c] = "send"
    /\ queueClosed
    /\ cpc' = [cpc EXCEPT ![c] = "panic"]
    /\ UNCHANGED << libVars, poolVars, jobQueue, appRegistry, written, refreshes, renderMu, globals,
                    workerVars, req, ctxDone, ret, record, op, preview, msg, pub, resultChan, chanClosed, hist >>

\* Submit returns (screens, err); RenderApp assembles its record from it, or
\* RenderPreview its bytes; a consumer goroutine goes on to publish
Returned(c, result, enc) ==
    /\ ret' = [ret EXCEPT ![c] = result]
    /\ IF op[c].name = "RenderPreview"
       THEN /\ preview' = [preview EXCEPT ![c] =
                  RenderPreviewReturn(result.Screens, result.Error, op[c].format, enc)]
            /\ record' = record
       ELSE /\ record' = [record EXCEPT ![c] =
                  RenderAppReturn(c, req[c], result.Screens, result.Error, enc)]
            /\ preview' = preview
    /\ cpc' = [cpc EXCEPT ![c] = IF op[c].name = "Message" THEN "publish"
                                  ELSE IF op[c].name = "Delivery" THEN "publishResult"
                                  ELSE "done"]
    /\ UNCHANGED << op, msg, pub >>

\* a Submit that selects on ctx.Done() while it pushes, not while it waits
SubmitCtxDoneOnlyOnSend(c) ==
    /\ cpc[c] = "send"
    /\ ctxDone[c]
    /\ Returned(c, PoolResult(NilScreens, CtxCanceled), [ok |-> FALSE, data |-> <<>>])
    /\ UNCHANGED << libVars, poolVars, jobQueue, appRegistry, written, refreshes, renderMu, globals,
                    workerVars, req, ctxDone, resultChan, chanClosed, hist >>

\* either select, case <-ctx.Done(): return nil, ctx.Err()
SubmitCtxDone(c) ==
    /\ cpc[c] \in {"send", "wait"}
    /\ ctxDone[c]
    /\ Returned(c, PoolResult(NilScreens, CtxCanceled), [ok |-> FALSE, data |-> <<>>])
    /\ UNCHANGED << libVars, poolVars, jobQueue, appRegistry, written, refreshes, renderMu, globals,
                    workerVars, req, ctxDone, resultChan, chanClosed, hist >>

\* either select, case <-wp.ctx.Done(): return nil, "worker pool is shutting down"
SubmitPoolDone(c) ==
    /\ cpc[c] \in {"send", "wait"}
    /\ poolCtxDone
    /\ Returned(c, PoolResult(NilScreens, ErrShuttingDown), [ok |-> FALSE, data |-> <<>>])
    /\ UNCHANGED << libVars, poolVars, jobQueue, appRegistry, written, refreshes, renderMu, globals,
                    workerVars, req, ctxDone, resultChan, chanClosed, hist >>

\* second select, case result := <-resultChan
SubmitReceive(c, enc) ==
    /\ cpc[c] = "wait"
    /\ enc \in run.encodes
    /\ Len(resultChan[c]) > 0
    /\ Returned(c, Head(resultChan[c]), enc)
    /\ resultChan' = [resultChan EXCEPT ![c] = Tail(resultChan[c])]
    /\ UNCHANGED << libVars, poolVars, jobQueue, appRegistry, written, refreshes, renderMu, globals,
                    workerVars, req, ctxDone, chanClosed, hist >>

\* the caller's context is cancelled while its Submit is pending
CancelCaller(c) ==
    /\ run.cancel
    /\ cpc[c] \in {"send", "wait"}
    /\ ~ctxDone[c]
    /\ ctxDone' = [ctxDone EXCEPT ![c] = TRUE]
    /\ UNCHANGED << libVars, poolVars, jobQueue, appRegistry, written, refreshes, renderMu, globals,
                    workerVars, cpc, req, ret, record, op, preview, msg, pub, resultChan, chanClosed, hist >>

(* ------------------------------ workers ------------------------------- *)
\* a channel that hands out the value sent last
ReceiveNewest(q) == [job |-> q[Len(q)], rest |-> SubSeq(q, 1, Len(q) - 1)]

\* <-wp.jobQueue on a channel that buffers q: the value sent first, and what the
\* channel buffers then
Receive(q) == [job |-> Head(q), rest |-> Tail(q)]

\* worker select, case job, ok := <-wp.jobQueue with ok: the head of the queue,
\* still delivered after close while the buffer holds jobs
WorkerClaim(w) ==
    /\ wpc[w] = "idle"
    /\ Len(jobQueue) > 0
    /\ wjob' = [wjob EXCEPT ![w] = Receive(jobQueue).job]
    /\ jobQueue' = Receive(jobQueue).rest
    /\ wpc' = [wpc EXCEPT ![w] = "prepare"]
    /\ hist' = [hist EXCEPT ![Receive(jobQueue).job].claims = @ + 1]
    /\ UNCHANGED << libVars, poolVars, appRegistry, written, refreshes, renderMu, globals, wres, wcfg, wctx,
                    callerVars, resultChan, chanClosed >>

\* worker select, case job, ok := <-wp.jobQueue with !ok: closed and drained
WorkerExitClosed(w) ==
    /\ wpc[w] = "idle"
    /\ queueClosed
    /\ Len(jobQueue) = 0
    /\ wpc' = [wpc EXCEPT ![w] = "exited"]
    /\ wg' = wg - 1
    /\ UNCHANGED << libVars, run, workers, queueCap, timeout, started, jobQueue, queueClosed, poolCtxDone,
                    stopPc, appRegistry, written, refreshes, renderMu, globals, wjob, wres, wcfg, wctx,
                    callerVars, resultChan, chanClosed, hist >>

\* worker select, case <-wp.ctx.Done()
WorkerExitCancelled(w) ==
    /\ wpc[w] = "idle"
    /\ poolCtxDone
    /\ wpc' = [wpc EXCEPT ![w] = "exited"]
    /\ wg' = wg - 1
    /\ UNCHANGED << libVars, run, workers, queueCap, timeout, started, jobQueue, queueClosed, poolCtxDone,
                    stopPc, appRegistry, written, refreshes, renderMu, globals, wjob, wres, wcfg, wctx,
                    callerVars, resultChan, chanClosed, hist >>

\* the context renderScreens makes for the engine call:
\* context.WithTimeout(wp.ctx, secondsToDuration(wp.timeout))
EngineCtx == [parent |-> "pool", seconds |-> timeout]

\* renderScreens up to the lock: id check, then runtime.InitHTTP(requestCache) and
\* runtime.InitCache(requestCache), which install the process-wide HTTP client and
\* cache, then registry lookup, stat, applet load, config, dimensions, context. The
\* read of wp.appRegistry is not synchronised with the write in UpdateAppRegistry: it
\* observes one of the registries written.
Prepare(w, load, registry) ==
    /\ wpc[w] = "prepare"
    /\ load \in run.loads
    /\ registry \in written
    /\ LET c == wjob[w]
           appID == req[c].AppID
           e == PrepareError(appID, registry, load)
       IN /\ IF e # NoError
             THEN /\ wres' = [wres EXCEPT ![w] = PoolResult(NilScreens, e)]
                  /\ wpc' = [wpc EXCEPT ![w] = "deliver"]
                  /\ UNCHANGED << wcfg, wctx >>
             ELSE /\ wres' = wres
                  /\ wcfg' = [wcfg EXCEPT ![w] = EngineConfig(req[c])]
                  /\ wctx' = [wctx EXCEPT ![w] = EngineCtx]
                  /\ wpc' = [wpc EXCEPT ![w] = "lockwait"]
          /\ hist' = [hist EXCEPT
                        ![c].lookups = IF e = ErrInvalidAppID(appID) THEN @ ELSE @ + 1,
                        ![c].absentAtLookup =
                            e # ErrInvalidAppID(appID) /\ appID \notin registry,
                        ![c].staleLookup =
                            e # ErrInvalidAppID(appID) /\ registry # appRegistry]
    /\ UNCHANGED << libVars, poolVars, jobQueue, appRegistry, written, refreshes, renderMu, globals,
                    wjob, callerVars, resultChan, chanClosed >>

\* a Lock that does not wait for the holder
LockWithoutWaiting == TRUE

\* renderMu.Lock() returns only when no one holds the mutex
LockAvailable == renderMu = 0

\* renderMu.Lock()
Lock(w) ==
    /\ wpc[w] = "lockwait"
    /\ LockAvailable
    /\ renderMu' = w
    /\ wpc' = [wpc EXCEPT ![w] = "locked"]
    /\ hist' = [hist EXCEPT ![wjob[w]].locks = @ + 1]
    /\ UNCHANGED << libVars, poolVars, jobQueue, appRegistry, written, refreshes, globals, wjob, wres, wcfg, wctx,
                    callerVars, resultChan, chanClosed >>

\* globals.Width, globals.Height, render.FrameWidth, render.FrameHeight = ...;
\* applet.RunWithConfig is entered
SetGlobals(w) ==
    /\ wpc[w] = "locked"
    /\ globals' = Dims(ResolveWidth(req[wjob[w]].Device), ResolveHeight(req[wjob[w]].Device))
    /\ wpc' = [wpc EXCEPT ![w] = "engine"]
    /\ hist' = [hist EXCEPT ![wjob[w]].engineCalls = @ + 1]
    /\ UNCHANGED << libVars, poolVars, jobQueue, appRegistry, written, refreshes, renderMu, wjob, wres, wcfg, wctx,
                    callerVars, resultChan, chanClosed >>

\* the parent of worker w's engine context is cancelled
ParentDone(w) ==
    \/ wctx[w].parent = "pool" /\ poolCtxDone
    \/ wctx[w].parent = "caller" /\ ctxDone[wjob[w]]

\* how applet.RunWithConfig(ctx, config) may end: "canceled" needs ctx's parent to
\* be cancelled; with a timeout that has already passed the call may end by the
\* deadline whatever the script does
EngineOutcomes(w) ==
    run.engine \cup (IF ParentDone(w) THEN {"canceled"} ELSE {})
               \cup (IF Expired(wctx[w].seconds) THEN {"deadline"} ELSE {})

\* the (screens, err) renderScreens makes of the engine's answer; the frames are
\* drawn at the dimensions the globals hold
EngineResult(out) ==
    CASE out = "frames" -> PoolResult(Screens(FALSE, globals.Width, globals.Height), NoError)
      [] out = "empty" -> PoolResult(Screens(TRUE, globals.Width, globals.Height), NoError)
      [] out = "fail" -> PoolResult(NilScreens, ErrRunApplet(ScriptFail))
      [] out = "deadline" -> PoolResult(NilScreens, ErrRunApplet(CtxDeadlineExceeded))
      [] out = "canceled" -> PoolResult(NilScreens, ErrRunApplet(CtxCanceled))

\* applet.RunWithConfig returns (and encode.ScreensFromRoots on success)
EngineReturn(w, out) ==
    /\ wpc[w] = "engine"
    /\ out \in EngineOutcomes(w)
    /\ wres' = [wres EXCEPT ![w] = EngineResult(out)]
    /\ wpc' = [wpc EXCEPT ![w] = "unlock"]
    /\ UNCHANGED << wcfg, wctx >>
    /\ UNCHANGED << libVars, poolVars, jobQueue, appRegistry, written, refreshes, renderMu, globals,
                    wjob, callerVars, resultChan, chanClosed, hist >>

\* a renderScreens whose error return leaves the mutex locked
UnlockedOnSuccessOnly(w) == IF wres[w].Error # NoError THEN renderMu ELSE 0

\* the mutex after renderMu.Unlock(), which both returns of renderScreens call
Unlocked(w) == 0

\* renderMu.Unlock(); renderScreens returns
Unlock(w) ==
    /\ wpc[w] = "unlock"
    /\ renderMu' = Unlocked(w)
    /\ wpc' = [wpc EXCEPT ![w] = "deliver"]
    /\ UNCHANGED << libVars, poolVars, jobQueue, appRegistry, written, refreshes, globals, wjob, wres, wcfg, wctx,
                    callerVars, resultChan, chanClosed, hist >>

\* a pool whose jobs all carry one result channel
JobResultShared(w) == CHOOSE c \in Callers : \A d \in Callers : c <= d

\* job.Result of the job worker w holds: the channel its Submit call made
JobResult(w) == wjob[w]

\* a processJob that sends its outcome twice
OutcomeSentTwice(w) == << wres[w], wres[w] >>

\* a processJob that closes job.Result without sending
OutcomeNotSent(w) == << >>

\* what processJob sends on job.Result
Outcome(w) == << wres[w] >>

\* processJob: job.Result <- &RenderResult{...}; close(job.Result)
Deliver(w) ==
    /\ wpc[w] = "deliver"
    /\ Len(resultChan[JobResult(w)]) + Len(Outcome(w)) <= ResultChanCap
    /\ IF chanClosed[JobResult(w)]
       THEN /\ wpc' = [wpc EXCEPT ![w] = "panic"]
            /\ UNCHANGED << wjob, wres, wcfg, wctx, resultChan, chanClosed, hist >>
       ELSE /\ resultChan' = [resultChan EXCEPT ![JobResult(w)] = @ \o Outcome(w)]
            /\ chanClosed' = [chanClosed EXCEPT ![JobResult(w)] = TRUE]
            /\ hist' = [hist EXCEPT ![wjob[w]].sends = @ + Len(Outcome(w))]
            /\ wpc' = [wpc EXCEPT ![w] = "idle"]
            /\ wjob' = [wjob EXCEPT ![w] = 0]
            /\ wres' = [wres EXCEPT ![w] = NoResult]
            /\ wcfg' = [wcfg EXCEPT ![w] = NoConfig]
            /\ wctx' = [wctx EXCEPT ![w] = NoCtx]
    /\ UNCHANGED << libVars, poolVars, jobQueue, appRegistry, written, refreshes, renderMu, globals,
                    callerVars >>

(* --------------------------- specification ---------------------------- *)
Next ==
    \/ Start
    \/ StopCancel
    \/ StopClose
    \/ StopReturn
    \/ \E registry \in Registries : UpdateAppRegistry(registry)
    \/ \E c \in Callers, request \in Requests : RenderAppCall(c, request)
    \/ \E c \in Callers, request \in Requests, format \in Formats :
            RenderPreviewCall(c, request, format)
    \/ \E c \in Callers, m \in Messages : ConsumerReceive(c, m)
    \/ \E c \in Callers, ok \in BOOLEAN : Publish(c, ok)
    \/ \E c \in Callers, ok \in BOOLEAN : Acknowledge(c, ok)
    \/ \E c \in Callers, m \in Messages : HandleMessage(c, m)
    \/ \E c \in Callers, ok \in BOOLEAN : PublishResult(c, ok)
    \/ \E c \in Callers : SubmitEnqueue(c)
    \/ \E c \in Callers : SubmitSendPanic(c)
    \/ \E c \in Callers : SubmitCtxDone(c)
    \/ \E c \in Callers : SubmitPoolDone(c)
    \/ \E c \in Callers, enc \in EncodeOutcomes : SubmitReceive(c, enc)
    \/ \E c \in Callers : CancelCaller(c)
    \/ \E w \in Workers : WorkerClaim(w)
    \/ \E w \in Workers : WorkerExitClosed(w)
    \/ \E w \in Workers : WorkerExitCancelled(w)
    \/ \E w \in Workers, load \in LoadOutcomes, registry \in Registries :
            Prepare(w, load, registry)
    \/ \E w \in Workers : Lock(w)
    \/ \E w \in Workers : SetGlobals(w)
    \/ \E w \in Workers, out \in RunOutcomes \cup {"canceled"} : EngineReturn(w, out)
    \/ \E w \in Workers : Unlock(w)
    \/ \E w \in Workers : Deliver(w)

Spec == Init /\ [][Next]_vars

(* ------------------------------ fairness ------------------------------ *)
MaxWorkerCount == IF MaxWorkersArg > DefaultWorkers THEN MaxWorkersArg ELSE DefaultWorkers
WorkerIds == 1..MaxWorkerCount

\* any step of worker w's goroutine
WorkerStep(w) ==
    /\ w \in Workers
    /\ \/ WorkerClaim(w) \/ WorkerExitClosed(w) \/ WorkerExitCancelled(w)
       \/ \E load \in LoadOutcomes, registry \in Registries : Prepare(w, load, registry)
       \/ Lock(w) \/ SetGlobals(w)
       \/ \E out \in RunOutcomes \cup {"canceled"} : EngineReturn(w, out)
       \/ Unlock(w) \/ Deliver(w)

\* the runs the liveness properties are checked on
LiveRuns == OutcomeRuns \cup DefaultRuns \cup StopRuns \cup PreviewRuns \cup ConsumerRuns
                \cup AmqpRuns
InitLive == LibIdle /\ \E r \in LiveRuns : InitRun(r)

\* goroutines that can run do run, every engine call ends, and Stop, once called,
\* goes on to its next statement
FairSpec ==
    /\ InitLive
    /\ [][Next]_vars
    /\ \A w \in WorkerIds : WF_vars(WorkerStep(w))
    /\ WF_vars(StopClose)
    /\ WF_vars(StopReturn)

\* a step of caller c's Submit: one of the ready cases of the select it is in
SubmitStep(c) ==
    /\ c \in Callers
    /\ \/ SubmitEnqueue(c) \/ SubmitSendPanic(c) \/ SubmitCtxDone(c) \/ SubmitPoolDone(c)
       \/ \E enc \in EncodeOutcomes : SubmitReceive(c, enc)

\* FairSpec with the goroutines that call Submit scheduled fairly as well
SubmitFairSpec ==
    /\ FairSpec
    /\ \A c \in 1..MaxCallers : WF_vars(SubmitStep(c))

(* ------------------------------ HTTP API ------------------------------ *)
ErrSchemaNotDefined == <<"app does not define a schema">>
ErrCallHandler(handlerName, inner) ==
    <<"error calling schema handler ", handlerName, ": ">> \o inner
HandlerFailed == <<"handler failed">>

\* Processor.CallSchemaHandler: the checks of renderScreens, then the applet's
\* schema, then applet.CallSchemaHandler, which answers with handler ("ok", "error");
\* reached tells whether applet.CallSchemaHandler was called
CallSchemaHandler(appID, registry, load, hasSchema, handlerName, handler) ==
    LET early == PrepareError(appID, registry, load) IN
    IF early # NoError THEN [result |-> <<>>, err |-> early, reached |-> FALSE]
    ELSE IF ~hasSchema THEN [result |-> <<>>, err |-> ErrSchemaNotDefined, reached |-> FALSE]
    ELSE IF handler = "error"
         THEN [result |-> <<>>, err |-> ErrCallHandler(handlerName, HandlerFailed),
               reached |-> TRUE]
    ELSE [result |-> <<"[", "]">>, err |-> NoError, reached |-> TRUE]

\* a call_handler body: whether it is JSON, and its handler_name and config members
\* (config: whether the body has one; CallHandlerRequest has no field for it)
CallHandlerBody(json, name, config) == [json |-> json, handler_name |-> name, config |-> config]
CallHandlerBodies ==
    { CallHandlerBody(FALSE, "", FALSE) } \cup
    { CallHandlerBody(TRUE, n, c) : n \in {"", "options$get_options"}, c \in BOOLEAN }

\* the texts strings.Contains looks for in err.Error(), as the pieces that hold them
NotFoundText == {"app not found: "}
NoSchemaText == {"app does not define a schema"}
HandlerText == {"error calling schema handler ", "handler failed"}
Mentions(err, text) == \E i \in 1..Len(err) : err[i] \in text

\* handleAppDetails for POST /apps/{id}/call_handler, then handleCallSchemaHandler:
\* the status written and whether the applet's handler was called
CallHandlerResponse(x) ==
    LET call == CallSchemaHandler(x.appID, x.registry, x.load, x.hasSchema,
                                  x.body.handler_name, x.handler) IN
    IF x.appID \notin x.registry THEN [status |-> 404, invoked |-> FALSE]
    ELSE IF ~x.body.json THEN [status |-> 400, invoked |-> FALSE]
    ELSE IF x.body.handler_name = "" THEN [status |-> 400, invoked |-> FALSE]
    ELSE IF call.err = NoError THEN [status |-> 200, invoked |-> call.reached]
    ELSE IF Mentions(call.err, NotFoundText) THEN [status |-> 404, invoked |-> call.reached]
    ELSE IF Mentions(call.err, NoSchemaText) THEN [status |-> 404, invoked |-> call.reached]
    ELSE IF Mentions(call.err, HandlerText) THEN [status |-> 400, invoked |-> call.reached]
    ELSE [status |-> 500, invoked |-> call.reached]

\* the call_handler requests served, and what each meets
CallHandlerExchanges ==
    { [kind |-> "call_handler", served |-> FALSE, appID |-> a, registry |-> {Clock},
       body |-> b, load |-> l, hasSchema |-> s, handler |-> h] :
         a \in {Clock, Ghost}, b \in CallHandlerBodies, l \in LoadOutcomes,
         s \in BOOLEAN, h \in {"ok", "error"} }

HandleCallSchemaHandler ==
    /\ http.kind = "call_handler"
    /\ ~http.served
    /\ http' = [served |-> TRUE, response |-> CallHandlerResponse(http)] @@ http
    /\ UNCHANGED << coreVars, cons, conn, proc, reg, rcache >>

\* schema.SchemaField, as far as validation reads it
SchemaField(id, type, default, source, handler) ==
    [ID |-> id, Type |-> type, Default |-> default, Source |-> source, Handler |-> handler]
FieldError(field, code) == [Field |-> field, Code |-> code]
BoolVal(b) == [t |-> "bool", v |-> b]

\* strings.TrimSpace(s) == "" for strings whose only white space is the blank
Blank(s) == \A i \in 1..Len(s) : s[i] = " "
RECURSIVE TrimSpace(_)
TrimSpace(s) ==
    IF s = <<>> THEN s
    ELSE IF s[1] = " " THEN TrimSpace(Tail(s))
    ELSE IF s[Len(s)] = " " THEN TrimSpace(SubSeq(s, 1, Len(s) - 1))
    ELSE s

\* the texts strconv.ParseBool accepts, and their values
ParseBoolTrue == { <<"1">>, <<"t">>, <<"T">>, <<"t", "r", "u", "e">>,
                   <<"T", "R", "U", "E">>, <<"T", "r", "u", "e">> }
ParseBoolFalse == { <<"0">>, <<"f">>, <<"F">>, <<"f", "a", "l", "s", "e">>,
                    <<"F", "A", "L", "S", "E">>, <<"F", "a", "l", "s", "e">> }

\* stringifyValue, for the values a decoded JSON body holds: a string, a
\* json.Number or null
StringifyValue(val) ==
    CASE val.t = "string" -> val.v
      [] val.t = "nil" -> <<>>
      [] OTHER -> FormatInt(val.v)

FieldRequiresExplicitValue(field) ==
    field.Type \in {"dropdown", "onoff", "radio", "toggle", "oauth2"}

\* coerceDefaultValue, for defaults that are no JSON object, array or float
CoerceDefaultValue(field) ==
    LET trimmed == TrimSpace(field.Default)
        digits == { Digit(d) : d \in 0..9 }
        RECURSIVE Value(_)
        Value(s) == IF s = <<>> THEN 0
                    ELSE 10 * Value(SubSeq(s, 1, Len(s) - 1))
                         + (CHOOSE d \in 0..9 : Digit(d) = s[Len(s)])
    IN  IF trimmed = <<>> THEN StrVal(<<>>)
        ELSE IF field.Type \in {"onoff", "toggle"} /\ trimmed \in ParseBoolTrue \cup ParseBoolFalse
             THEN BoolVal(trimmed \in ParseBoolTrue)
        ELSE IF \A i \in 1..Len(trimmed) : trimmed[i] \in digits THEN IntVal(Value(trimmed))
        ELSE StrVal(field.Default)

\* validateFieldValue, for text, toggle and onoff fields
ValidateFieldValue(field, value) ==
    LET strValue == StringifyValue(value) IN
    CASE field.Type = "text" ->
           IF value.t # "string" THEN <<FieldError(field.ID, "invalid_type")>> ELSE <<>>
      [] field.Type \in {"onoff", "toggle"} ->
           IF Blank(strValue) THEN <<FieldError(field.ID, "invalid_bool")>>
           ELSE IF strValue \notin ParseBoolTrue \cup ParseBoolFalse
                THEN <<FieldError(field.ID, "invalid_bool")>>
           ELSE <<>>
      [] OTHER -> <<>>

\* what the app's handler for a generated field may answer: an error, the empty
\* string, text that is no schema, or a schema (with a nested generated field)
GeneratedAnswers == {"error", "empty", "garbage", "schema"}
GeneratedSchema ==
    << SchemaField("x", "text", <<>>, "", ""),
       SchemaField("n", "generated", <<>>, "x", "h"),
       SchemaField("b", "toggle", <<>>, "", "") >>
ErrGenerated(id) == <<"generated handler call failed for ", id>>
ErrDecodeGenerated(id) == <<"failed to decode generated schema for ", id>>

\* resolveGeneratedFields: the fields a generated field stands for, or an error
ResolveGeneratedFields(generatedField, config, schemaFields, answer) ==
    LET none == [fields |-> <<>>, err |-> NoError]
        sourceField == schemaFields[generatedField.Source]
        sourceValue == IF sourceField.ID \in DOMAIN config THEN config[sourceField.ID]
                       ELSE StrVal(sourceField.Default)
        RECURSIVE Plain(_)
        Plain(fs) == IF fs = <<>> THEN <<>>
                     ELSE IF Head(fs).Type = "generated" THEN Plain(Tail(fs))
                     ELSE <<Head(fs)>> \o Plain(Tail(fs))
    IN  IF generatedField.Handler = "" THEN none
        ELSE IF generatedField.Source \notin DOMAIN schemaFields THEN none
        ELSE IF sourceField.ID \notin DOMAIN config /\ sourceField.Default = <<>> THEN none
        ELSE IF StringifyValue(sourceValue) = <<>> THEN none
        ELSE IF answer = "error"
             THEN [fields |-> <<>>, err |-> ErrGenerated(generatedField.ID)]
        ELSE IF answer = "empty" THEN none
        ELSE IF answer = "garbage"
             THEN [fields |-> <<>>, err |-> ErrDecodeGenerated(generatedField.ID)]
        ELSE [fields |-> Plain(GeneratedSchema), err |-> NoError]

\* a validation that does not enter the resolved fields into schemaFields
WithoutGenerated(schemaFields, generatedFields) == schemaFields

\* schemaFields[gf.ID] = gf for each resolved field
RECURSIVE WithGenerated(_, _)
WithGenerated(schemaFields, generatedFields) ==
    IF generatedFields = <<>> THEN schemaFields
    ELSE LET gf == Head(generatedFields) IN
         WithGenerated([k \in DOMAIN schemaFields \cup {gf.ID} |->
                          IF k = gf.ID THEN gf ELSE schemaFields[k]],
                       Tail(generatedFields))

\* ValidateConfig: the normalized config, the error list and the error it
\* returns, and the caller's config map as the call leaves it
ValidateConfig(config, fields, answer) ==
    LET RECURSIVE Resolve(_, _, _)
        \* the loop over appSchema.Fields from field i on
        Resolve(i, m, eff) ==
            IF i > Len(fields)
            THEN [schemaFields |-> m, effectiveFields |-> eff, err |-> NoError]
            ELSE IF fields[i].Type # "generated" THEN Resolve(i + 1, m, Append(eff, fields[i]))
            ELSE LET g == ResolveGeneratedFields(fields[i], config, m, answer) IN
                 IF g.err # NoError
                 THEN [schemaFields |-> m, effectiveFields |-> eff, err |-> g.err]
                 ELSE Resolve(i + 1, WithGenerated(m, g.fields), eff \o g.fields)
        r == Resolve(1, WithGenerated(<<>>, fields), <<>>)
        defaulted == { i \in 1..Len(r.effectiveFields) :
                         /\ r.effectiveFields[i].ID \notin DOMAIN config
                         /\ ~Blank(r.effectiveFields[i].Default) }
        normalizedConfig ==
            [k \in DOMAIN config \cup { r.effectiveFields[i].ID : i \in defaulted } |->
                IF k \in DOMAIN config THEN config[k]
                ELSE LET last == CHOOSE i \in defaulted :
                                   /\ r.effectiveFields[i].ID = k
                                   /\ \A j \in defaulted :
                                        r.effectiveFields[j].ID = k => j <= i
                     IN  CoerceDefaultValue(r.effectiveFields[last])]
        RECURSIVE FieldErrors(_)
        FieldErrors(i) ==
            IF i > Len(r.effectiveFields) THEN <<>>
            ELSE LET field == r.effectiveFields[i] IN
                 (IF field.ID \in DOMAIN config THEN ValidateFieldValue(field, config[field.ID])
                  ELSE IF Blank(field.Default) /\ FieldRequiresExplicitValue(field)
                       THEN <<FieldError(field.ID, "required")>>
                  ELSE <<>>) \o FieldErrors(i + 1)
        RECURSIVE Unknown(_)
        \* the loop over the config's keys, each met once, in the map's order
        Unknown(keys) ==
            IF keys = {} THEN <<>>
            ELSE LET key == CHOOSE k \in keys : TRUE IN
                 (IF key \in DOMAIN r.schemaFields THEN <<>>
                  ELSE <<FieldError(key, "unknown_field")>>) \o Unknown(keys \ {key})
    IN  IF r.err # NoError
        THEN [normalizedConfig |-> <<>>, errors |-> <<>>, err |-> r.err, config |-> config]
        ELSE [normalizedConfig |-> normalizedConfig,
              errors |-> FieldErrors(1) \o Unknown(DOMAIN config),
              err |-> NoError, config |-> config]

\* handleValidateSchema once the body is decoded and the schema read
ValidateSchemaResponse(x) ==
    LET v == ValidateConfig(x.config, x.fields, x.answer) IN
    IF v.err # NoError
    THEN [status |-> 500, Valid |-> FALSE, Errors |-> <<>>, config |-> v.config]
    ELSE [status |-> 200, Valid |-> Len(v.errors) = 0, Errors |-> v.errors,
          NormalizedConfig |-> v.normalizedConfig, config |-> v.config]

\* the schemas and configs validated
Schemas ==
    { << SchemaField("a", "text", <<>>, "", ""), SchemaField("b", "toggle", <<>>, "", "") >>,
      << SchemaField("a", "text", <<"y">>, "", ""),
         SchemaField("g", "generated", <<>>, "a", "h") >>,
      << SchemaField("g", "generated", <<>>, "a", "h"),
         SchemaField("a", "text", <<" ">>, "", "") >>,
      << SchemaField("b", "toggle", <<"1">>, "", ""),
         SchemaField("g", "generated", <<>>, "z", "h") >>,
      << SchemaField("a", "text", <<"7">>, "", ""),
         SchemaField("g", "generated", <<>>, "a", "") >> }
ConfigKeys == {"a", "b", "g", "x", "u"}
ConfigValues == { StrVal(<<"y">>), StrVal(<<>>), IntVal(1) }
Configs == UNION { [ks -> ConfigValues] : ks \in SUBSET ConfigKeys }

ValidateExchanges ==
    { [kind |-> "validate", served |-> FALSE, config |-> c, fields |-> f, answer |-> a] :
        c \in Configs, f \in Schemas, a \in GeneratedAnswers }

HandleValidateSchema ==
    /\ http.kind = "validate"
    /\ ~http.served
    /\ http' = [served |-> TRUE, response |-> ValidateSchemaResponse(http)] @@ http
    /\ UNCHANGED << coreVars, cons, conn, proc, reg, rcache >>

\* one request, served once
InitApi ==
    /\ \E r \in AmqpRuns : InitRun(r)
    /\ LoopsIdle
    /\ http \in CallHandlerExchanges \cup ValidateExchanges
    /\ reg = NoRegistry
    /\ rcache = NoKeyspace

NextApi == HandleCallSchemaHandler \/ HandleValidateSchema

ApiSpec == InitApi /\ [][NextApi]_vars

(* ---------------------------- AppRegistry ----------------------------- *)
\* the names an entry of the apps directory may have, in os.ReadDir's order
EntryNames == <<"a", "b">>
\* what an entry may be: a plain file, a directory without manifest.yaml, with a
\* manifest that does not parse, with a manifest whose star file is missing, or
\* with a manifest (id: the entry's name, or "shared") and its star file
Entry(kind, id) == [kind |-> kind, id |-> id]
EntriesNamed(n) ==
    { Entry("file", ""), Entry("nomanifest", ""), Entry("badyaml", ""), Entry("nostar", n),
      Entry("app", n), Entry("app", "shared") }
\* the apps directory: its entries by name
AppsDirs ==
    UNION { { d \in [ns -> UNION { EntriesNamed(EntryNames[i]) : i \in 1..Len(EntryNames) }] :
                \A n \in ns : d[n] \in EntriesNamed(n) } :
            ns \in SUBSET { EntryNames[i] : i \in 1..Len(EntryNames) } }

ErrReadManifest == <<"failed to read manifest file: ", "no such file or directory">>
ErrParseManifest == <<"failed to parse manifest file: ", "yaml: did not find expected key">>
ErrStarFile(name) == <<"star file not found: ", name>>
ErrReadDir == <<"failed to read apps directory: ", "no such file or directory">>

\* LoadManifest of the sub-directory name holding entry
LoadManifest(name, entry) ==
    IF entry.kind = "nomanifest" THEN [manifest |-> <<>>, err |-> ErrReadManifest]
    ELSE IF entry.kind = "badyaml" THEN [manifest |-> <<>>, err |-> ErrParseManifest]
    ELSE IF entry.kind = "nostar" THEN [manifest |-> <<>>, err |-> ErrStarFile(name)]
    ELSE [manifest |-> [ID |-> entry.id, DirectoryPath |-> name], err |-> NoError]

NoApps == [id \in {} |-> <<>>]

\* AppRegistry.LoadApps: r.apps and the error once it returns
LoadApps(apps, dir, readable) ==
    LET RECURSIVE Load(_, _)
        \* the loop over the entries from the i-th name on
        Load(i, m) ==
            IF i > Len(EntryNames) THEN m
            ELSE LET name == EntryNames[i] IN
                 IF name \notin DOMAIN dir THEN Load(i + 1, m)
                 ELSE IF dir[name].kind = "file" THEN Load(i + 1, m)
                 ELSE LET l == LoadManifest(name, dir[name]) IN
                      IF l.err # NoError THEN Load(i + 1, m)
                      ELSE Load(i + 1, [id \in DOMAIN m \cup {l.manifest.ID} |->
                                          IF id = l.manifest.ID THEN l.manifest ELSE m[id]])
    IN  IF ~readable THEN [apps |-> NoApps, err |-> ErrReadDir]
        ELSE [apps |-> Load(1, NoApps), err |-> NoError]

\* a call of LoadApps; good is history: whether a call has succeeded, and the
\* sub-directories that held a manifest that parses and its star file at the last
\* call that did
LoadAppsCall(readable) ==
    /\ reg.loads < MaxLoads
    /\ LET l == LoadApps(reg.apps, reg.dir, readable) IN
       reg' = [reg EXCEPT !.apps = l.apps, !.err = l.err, !.loads = @ + 1,
                          !.good = IF l.err # NoError THEN @
                                   ELSE [any |-> TRUE,
                                         dirs |-> { n \in DOMAIN reg.dir :
                                                      reg.dir[n].kind = "app" }]]
    /\ UNCHANGED << coreVars, cons, conn, proc, http, rcache >>

\* the apps directory changes between two loads
ChangeAppsDir(dir) ==
    /\ reg.loads < MaxLoads
    /\ reg.loads > 0
    /\ dir # reg.dir
    /\ reg' = [reg EXCEPT !.dir = dir]
    /\ UNCHANGED << coreVars, cons, conn, proc, http, rcache >>

\* NewAppRegistry, before some apps directory
InitRegistry ==
    /\ \E r \in AmqpRuns : InitRun(r)
    /\ LoopsIdle
    /\ http = NoExchange
    /\ rcache = NoKeyspace
    /\ \E dir \in AppsDirs :
         reg = [apps |-> NoApps, dir |-> dir, loads |-> 0, err |-> NoError,
                good |-> [any |-> FALSE, dirs |-> {}]]

NextRegistry ==
    \/ \E readable \in BOOLEAN : LoadAppsCall(readable)
    \/ \E dir \in AppsDirs : ChangeAppsDir(dir)

RegistrySpec == InitRegistry /\ [][NextRegistry]_vars

(* ------------------------- ContextualRedisCache ----------------------- *)
\* RedisCache.WithContext(appID, deviceID)
WithContext(appID, deviceID) == [appID |-> appID, deviceID |-> deviceID]

\* the contexts and cache keys in use
Contexts ==
    { WithContext(<<"a">>, <<"b">>), WithContext(<<"a">>, <<"b", "/", "c">>),
      WithContext(<<"a", "/", "b">>, <<"c">>), WithContext(<<"a">>, <<"*">>),
      WithContext(<<"z">>, <<"b">>) }
CacheKeys == { <<"k">>, <<"c", "/", "k">> }

\* strings.ReplaceAll(s, old, new) for one-character old and new
ReplaceAll(s, old, new) == [i \in 1..Len(s) |-> IF s[i] = old THEN new ELSE s[i]]

\* buildKey: "%s/%s/%s" of the app id, the device id and the cleaned key
BuildKey(c, key) == c.appID \o <<"/">> \o c.deviceID \o <<"/">> \o ReplaceAll(key, "/", "_")

\* FlushApp's pattern: "%s/%s/*"
FlushAppPattern(c) == c.appID \o <<"/">> \o c.deviceID \o <<"/", "*">>

\* SCAN's MATCH: a glob in which * stands for any run of characters
RECURSIVE Match(_, _)
Match(pattern, s) ==
    IF pattern = <<>> THEN s = <<>>
    ELSE IF Head(pattern) = "*"
         THEN \E i \in 0..Len(s) : Match(Tail(pattern), SubSeq(s, i + 1, Len(s)))
    ELSE s # <<>> /\ Head(s) = Head(pattern) /\ Match(Tail(pattern), Tail(s))

\* rcache.keys maps each Redis key to its value and, as history, to the context
\* that set it; got and flushed are history: whose value the last Get returned to
\* whom, and whose keys the last FlushApp deleted for whom
NoContext == WithContext(<<>>, <<>>)
EmptyKeyspace ==
    [keys |-> [k \in {} |-> <<>>], ops |-> 0, got |-> [by |-> NoContext, of |-> {}],
     flushed |-> [by |-> NoContext, of |-> {}]]

\* ContextualRedisCache.Set (the TTL does not run out)
CacheSet(c, key, value) ==
    /\ rcache.ops < MaxCacheOps
    /\ LET cacheKey == BuildKey(c, key) IN
       rcache' = [rcache EXCEPT
                    !.ops = @ + 1,
                    !.keys = [k \in DOMAIN @ \cup {cacheKey} |->
                                IF k = cacheKey THEN [value |-> value, owner |-> c] ELSE @[k]]]
    /\ UNCHANGED << coreVars, cons, conn, proc, http, reg >>

\* ContextualRedisCache.Get
CacheGet(c, key) ==
    /\ rcache.ops < MaxCacheOps
    /\ LET cacheKey == BuildKey(c, key) IN
       rcache' = [rcache EXCEPT
                    !.ops = @ + 1,
                    !.got = [by |-> c,
                             of |-> IF cacheKey \in DOMAIN rcache.keys
                                    THEN {rcache.keys[cacheKey].owner} ELSE {}]]
    /\ UNCHANGED << coreVars, cons, conn, proc, http, reg >>

\* ContextualRedisCache.FlushApp: SCAN with the pattern, then DEL of what it found
FlushApp(c) ==
    /\ rcache.ops < MaxCacheOps
    /\ LET found == { k \in DOMAIN rcache.keys : Match(FlushAppPattern(c), k) } IN
       rcache' = [rcache EXCEPT
                    !.ops = @ + 1,
                    !.keys = [k \in (DOMAIN @) \ found |-> @[k]],
                    !.flushed = [by |-> c, of |-> { rcache.keys[k].owner : k \in found }]]
    /\ UNCHANGED << coreVars, cons, conn, proc, http, reg >>

InitCache ==
    /\ \E r \in AmqpRuns : InitRun(r)
    /\ LoopsIdle
    /\ http = NoExchange
    /\ reg = NoRegistry
    /\ rcache = EmptyKeyspace

NextCache ==
    \/ \E c \in Contexts, key \in CacheKeys : CacheSet(c, key, "v")
    \/ \E c \in Contexts, key \in CacheKeys : CacheGet(c, key)
    \/ \E c \in Contexts : FlushApp(c)

CacheSpec == InitCache /\ [][NextCache]_vars

(* ---------------------- the Redis stream Consumer --------------------- *)
\* the maxWorkers NewConsumer may be given
ConsumerArgs == {-1, 0, 1, 2}

\* a NewConsumer that keeps the maxWorkers it is given
ConsumerWorkersAsGiven(maxWorkers) == maxWorkers

\* NewConsumer: Consumer.maxWorkers
ConsumerWorkers(maxWorkers) == IF maxWorkers <= 0 THEN DefaultHandlers ELSE maxWorkers

\* a semaphore whose send never waits
SlotAlwaysFree == TRUE

\* sem <- struct{}{} can proceed: the channel of capacity maxWorkers has room
SlotFree == cons.sem < cons.maxWorkers

\* the handler goroutines that have been started and have not ended: inside
\* handleStreamMessage, before <-sem, and before wg.Done()
Handlers == cons.handling + cons.releasing + cons.finishing

\* Consumer.Stop: c.cancel()
ConsumerStop ==
    /\ cons.pc # "returned"
    /\ ~cons.ctxDone
    /\ cons' = [cons EXCEPT !.ctxDone = TRUE]
    /\ UNCHANGED << coreVars, http, reg, rcache, conn, proc >>

\* Start's select: return nil once c.ctx is done, else call consumeMessages, which
\* makes its semaphore and its WaitGroup
StartSelect ==
    /\ cons.pc = "start"
    /\ cons' = IF cons.ctxDone THEN [cons EXCEPT !.pc = "returned"]
               ELSE [cons EXCEPT !.pc = "loop", !.sem = 0, !.wg = 0]
    /\ UNCHANGED << coreVars, http, reg, rcache, conn, proc >>

\* consumeMessages' select: wg.Wait() once c.ctx is done, else ReadFromStream
ConsumeSelect ==
    /\ cons.pc = "loop"
    /\ cons' = [cons EXCEPT !.pc = IF cons.ctxDone THEN "wait" ELSE "read"]
    /\ UNCHANGED << coreVars, http, reg, rcache, conn, proc >>

\* ReadFromStream returns n messages (at most maxWorkers, none when the block time
\* runs out), or an error with the connection healthy ("retry": sleep, continue)
\* or not ("unhealthy": wg.Wait() and return the error)
ReadReturn(n, outcome) ==
    /\ cons.pc = "read"
    /\ n <= cons.maxWorkers
    /\ cons.read + n <= MaxStreamMessages
    /\ outcome = "messages" \/ n = 0
    /\ cons' = [cons EXCEPT
                  !.pc = CASE outcome = "messages" -> "dispatch"
                           [] outcome = "retry" -> "loop"
                           [] outcome = "unhealthy" -> "waitErr",
                  !.pending = n,
                  !.read = @ + n]
    /\ UNCHANGED << coreVars, http, reg, rcache, conn, proc >>

\* the loop over the messages read: sem <- struct{}{}; wg.Add(1); go func(msg)
Dispatch ==
    /\ cons.pc = "dispatch"
    /\ IF cons.pending = 0
       THEN cons' = [cons EXCEPT !.pc = "loop"]
       ELSE /\ SlotFree
            /\ cons' = [cons EXCEPT !.sem = @ + 1, !.wg = @ + 1, !.handling = @ + 1,
                                    !.pending = @ - 1]
    /\ UNCHANGED << coreVars, http, reg, rcache, conn, proc >>

\* a consumeMessages that returns without wg.Wait()
WgNotWaited == TRUE

\* wg.Wait() can return: every wg.Add(1) has met its wg.Done()
WgWaited == cons.wg = 0

\* wg.Wait() returns and consumeMessages returns nil, or the error after which
\* Start sleeps and goes round its loop
WaitReturn ==
    /\ cons.pc \in {"wait", "waitErr"}
    /\ WgWaited
    /\ cons' = [cons EXCEPT !.pc = "start"]
    /\ UNCHANGED << coreVars, http, reg, rcache, conn, proc >>

\* a handler goroutine: handleStreamMessage returns
HandlerReturn ==
    /\ cons.handling > 0
    /\ cons' = [cons EXCEPT !.handling = @ - 1, !.releasing = @ + 1]
    /\ UNCHANGED << coreVars, http, reg, rcache, conn, proc >>

\* the handler's deferred function: <-sem
ReleaseSlot ==
    /\ cons.releasing > 0
    /\ cons' = [cons EXCEPT !.releasing = @ - 1, !.finishing = @ + 1, !.sem = @ - 1]
    /\ UNCHANGED << coreVars, http, reg, rcache, conn, proc >>

\* the handler's deferred function: wg.Done()
HandlerDone ==
    /\ cons.finishing > 0
    /\ cons' = [cons EXCEPT !.finishing = @ - 1, !.wg = @ - 1]
    /\ UNCHANGED << coreVars, http, reg, rcache, conn, proc >>

\* NewConsumer, then Start
InitConsumer ==
    /\ \E r \in AmqpRuns : InitRun(r)
    /\ http = NoExchange /\ reg = NoRegistry /\ rcache = NoKeyspace
    /\ conn = NoConnection /\ proc = NoProcessor
    /\ \E maxWorkers \in ConsumerArgs :
         cons = [pc |-> "start", arg |-> maxWorkers, maxWorkers |-> ConsumerWorkers(maxWorkers),
                 ctxDone |-> FALSE, sem |-> 0, wg |-> 0, handling |-> 0, releasing |-> 0,
                 finishing |-> 0, pending |-> 0, read |-> 0]

\* a step of the goroutine that runs Start
ConsumerLoop == StartSelect \/ ConsumeSelect \/ Dispatch \/ WaitReturn
\* ReadFromStream returns
ConsumerRead ==
    \E n \in 0..MaxStreamMessages, outcome \in {"messages", "retry", "unhealthy"} :
        ReadReturn(n, outcome)
\* a step of a handler goroutine
HandlerStep == HandlerReturn \/ ReleaseSlot \/ HandlerDone

NextConsumer == ConsumerStop \/ ConsumerLoop \/ ConsumerRead \/ HandlerStep

\* the goroutines run, the blocking read returns, and every handler ends
ConsumerSpec ==
    /\ InitConsumer
    /\ [][NextConsumer]_vars
    /\ WF_vars(ConsumerLoop)
    /\ WF_vars(ConsumerRead)
    /\ WF_vars(HandlerStep)

(* -------------------- the reconnecting AMQP Consumer ------------------ *)
\* float64(retryDelay) * 1.5 as a time.Duration; durations are counted in units of
\* 5^9 ns, of which a second has 512, so that every delay Start computes is whole
Backoff(retryDelay) == (retryDelay * 3) \div 2

\* how a consumption session may end: EnsureConnection fails, Consume fails, the
\* message channel closes after the consumer was registered, or ctx is cancelled
\* while it consumes
SessionEnds == {"no connection", "not registered", "channel closed", "cancelled"}

\* the error startConsuming returns
StartConsuming(end) ==
    CASE end = "no connection" -> <<"failed to ensure connection: ", "dial failed">>
      [] end = "not registered" -> <<"failed to register consumer: ", "channel closed">>
      [] end = "channel closed" -> <<"message channel closed">>
      [] end = "cancelled" -> CtxCanceled

\* the caller cancels Start's ctx
ConnCancel ==
    /\ conn.pc # "returned"
    /\ ~conn.ctxDone
    /\ conn' = [conn EXCEPT !.ctxDone = TRUE]
    /\ UNCHANGED << coreVars, http, reg, rcache, cons, proc >>

\* Start's select: return ctx.Err() once ctx is done, else call startConsuming
ConnSelect ==
    /\ conn.pc = "select"
    /\ IF conn.ctxDone
       THEN conn' = [conn EXCEPT !.pc = "returned", !.err = CtxCanceled]
       ELSE /\ conn.sessions < MaxSessions
            /\ conn' = [conn EXCEPT !.pc = "session", !.sessions = @ + 1]
    /\ UNCHANGED << coreVars, http, reg, rcache, cons, proc >>

\* startConsuming returns: with an error, retryCount++ and the backoff select; with
\* nil, retryDelay and retryCount are reset. registered is history: the session
\* that ended had connected and registered its consumer.
SessionEnd(end) ==
    /\ conn.pc = "session"
    /\ end = "cancelled" => conn.ctxDone
    /\ LET err == StartConsuming(end) IN
       conn' = IF err # NoError
               THEN [conn EXCEPT !.pc = "backoff", !.retryCount = @ + 1,
                                 !.registered = end \in {"channel closed", "cancelled"}]
               ELSE [conn EXCEPT !.pc = "select", !.retryDelay = Second, !.retryCount = 0,
                                 !.registered = TRUE]
    /\ UNCHANGED << coreVars, http, reg, rcache, cons, proc >>

\* the backoff select, case <-ctx.Done(): return ctx.Err()
BackoffCancelled ==
    /\ conn.pc = "backoff"
    /\ conn.ctxDone
    /\ conn' = [conn EXCEPT !.pc = "returned", !.err = CtxCanceled]
    /\ UNCHANGED << coreVars, http, reg, rcache, cons, proc >>

\* the backoff select, case <-time.After(retryDelay): the next delay, then continue
BackoffElapsed ==
    /\ conn.pc = "backoff"
    /\ conn' = [conn EXCEPT !.pc = "select",
                            !.retryDelay = IF Backoff(@) > MaxRetryDelay THEN MaxRetryDelay
                                           ELSE Backoff(@)]
    /\ UNCHANGED << coreVars, http, reg, rcache, cons, proc >>

\* Start is called
InitConn ==
    /\ \E r \in AmqpRuns : InitRun(r)
    /\ http = NoExchange /\ reg = NoRegistry /\ rcache = NoKeyspace
    /\ cons = NoConsumer /\ proc = NoProcessor
    /\ conn = [pc |-> "select", retryDelay |-> Second, retryCount |-> 0, ctxDone |-> FALSE,
               sessions |-> 0, registered |-> FALSE, err |-> NoError]

NextConn ==
    \/ ConnCancel
    \/ ConnSelect
    \/ \E end \in SessionEnds : SessionEnd(end)
    \/ BackoffCancelled
    \/ BackoffElapsed

ConnSpec == InitConn /\ [][NextConn]_vars

(* ------------------- Processor.RefreshAppRegistry --------------------- *)
\* the goroutines that call RefreshAppRegistry, one per refresh request served
Refreshers == 1..MaxRefreshers

\* the states of the apps directory a refresh may find: sub-directories with a
\* manifest and its star file, "a" among them
RefreshDirs == { d \in AppsDirs : "a" \in DOMAIN d /\ \A n \in DOMAIN d : d[n] = Entry("app", n) }

ErrLoadApps(err) == <<"failed to load apps: ">> \o err

\* a refresh that loads into the registry the Processor is using
RefreshTargetCurrent == proc.appRegistry

\* newRegistry := models.NewAppRegistry(): a registry object no one else holds
RefreshTarget == Len(proc.objs) + 1

\* RefreshAppRegistry up to its first write of a shared field: NewAppRegistry and
\* newRegistry.LoadApps(p.config.AppsPath); on an error it returns it wrapped
RefreshLoad(r, dir, readable) ==
    /\ proc.rpc[r] \in {"idle", "returned"}
    /\ proc.calls < MaxRefreshCalls
    /\ LET target == RefreshTarget
           had == IF target > Len(proc.objs) THEN NoApps ELSE proc.objs[target]
           l == LoadApps(had, dir, readable)
           objs == IF target > Len(proc.objs) THEN Append(proc.objs, l.apps)
                   ELSE [proc.objs EXCEPT ![target] = l.apps]
       IN proc' = IF l.err # NoError
                  THEN [proc EXCEPT !.objs = objs, !.calls = @ + 1,
                                    !.rpc[r] = "returned", !.ret[r] = ErrLoadApps(l.err)]
                  ELSE [proc EXCEPT !.objs = objs, !.calls = @ + 1,
                                    !.rpc[r] = "assign", !.new[r] = target,
                                    !.ret[r] = NoError]
    /\ UNCHANGED << coreVars, http, reg, rcache, cons, conn >>

\* p.appRegistry = newRegistry
RefreshAssign(r) ==
    /\ proc.rpc[r] = "assign"
    /\ proc' = [proc EXCEPT !.appRegistry = proc.new[r], !.rpc[r] = "update"]
    /\ UNCHANGED << coreVars, http, reg, rcache, cons, conn >>

\* p.workerPool.UpdateAppRegistry(newRegistry), then return nil
RefreshUpdate(r) ==
    /\ proc.rpc[r] = "update"
    /\ proc' = [proc EXCEPT !.poolRegistry = proc.new[r], !.rpc[r] = "returned",
                            !.done = @ + 1]
    /\ UNCHANGED << coreVars, http, reg, rcache, cons, conn >>

\* NewProcessor has loaded the apps directory into the registry it shares with
\* its pool
InitRefresh ==
    /\ \E r \in AmqpRuns : InitRun(r)
    /\ http = NoExchange /\ reg = NoRegistry /\ rcache = NoKeyspace
    /\ cons = NoConsumer /\ conn = NoConnection
    /\ \E dir \in RefreshDirs :
         proc = [pc |-> "ready", objs |-> << LoadApps(NoApps, dir, TRUE).apps >>,
                 appRegistry |-> 1, poolRegistry |-> 1, calls |-> 0, done |-> 0,
                 rpc |-> [r \in Refreshers |-> "idle"],
                 new |-> [r \in Refreshers |-> 0],
                 ret |-> [r \in Refreshers |-> NoError]]

NextRefresh ==
    \/ \E r \in Refreshers, dir \in RefreshDirs, readable \in BOOLEAN : RefreshLoad(r, dir, readable)
    \/ \E r \in Refreshers : RefreshAssign(r)
    \/ \E r \in Refreshers : RefreshUpdate(r)

RefreshSpec == InitRefresh /\ [][NextRefresh]_vars

(* ------------------------------- claims ------------------------------- *)
JobDims(c) == Dims(ResolveWidth(req[c].Device), ResolveHeight(req[c].Device))
Held(c) == \E w \in Workers : wjob[w] = c
InLockedSection(w) == wpc[w] \in {"locked", "engine", "unlock"}

\* C1: while a job is inside its engine call the global dimensions are that job's
\* own resolved width and height, no other worker is between Lock and Unlock, and
\* the frames the engine drew have the job's dimensions.
C1_EngineSeesOwnDimensions ==
    \A w \in Workers :
        /\ wpc[w] = "engine" =>
              /\ globals = JobDims(wjob[w])
              /\ renderMu = w
              /\ \A v \in Workers : v # w => ~InLockedSection(v)
        /\ (wpc[w] \in {"unlock", "deliver"} /\ ~wres[w].Screens.Nil) =>
              /\ wres[w].Screens.Width = JobDims(wjob[w]).Width
              /\ wres[w].Screens.Height = JobDims(wjob[w]).Height

\* C1 witness: one job is in its engine call while a job of other dimensions waits
\* for the lock.
C1_Witness ==
    \E w \in Workers, v \in Workers :
        /\ wpc[w] = "engine"
        /\ wpc[v] = "lockwait"
        /\ JobDims(wjob[w]) # JobDims(wjob[v])
        /\ globals = JobDims(wjob[w])

\* C2 as claimed: every job pushed onto the queue has received exactly one result
\* by the time nothing more can be delivered (Stop has returned).
C2_ExactlyOneResult ==
    stopPc = "returned" => \A c \in Callers : hist[c].pushed => hist[c].sends = 1

\* C2 amended: a pushed job's result channel receives at most one result; it has
\* received exactly one as soon as a worker has claimed the job and finished
\* processJob; a job that received none is still queued or held by a worker.
C2_AtMostOneResult ==
    \A c \in Callers :
        /\ hist[c].sends <= 1
        /\ hist[c].claims <= 1
        /\ Len(resultChan[c]) <= hist[c].sends
        /\ hist[c].claims = 1 => hist[c].pushed
        /\ hist[c].sends = 1 <=> (hist[c].claims = 1 /\ ~Held(c))
        /\ (hist[c].pushed /\ hist[c].sends = 0) => (c \in Queued \/ Held(c))

\* C2 witness: a job's result was delivered although its caller had cancelled and
\* returned the context error.
C2_Witness ==
    \E c \in Callers :
        /\ hist[c].sends = 1
        /\ cpc[c] = "done"
        /\ ret[c].Error = CtxCanceled
        /\ Len(resultChan[c]) = 1

\* a Submit blocked on its push: the queue is full and neither context is cancelled
BlockedOnFullQueue(c) ==
    /\ cpc[c] = "send"
    /\ Len(jobQueue) = QueueFactor * workers
    /\ ~ctxDone[c]
    /\ ~poolCtxDone

\* C3: the queue never holds more than 2*w jobs; a Submit whose push finds the queue
\* full stays blocked (no error, no drop) while no context is cancelled, and it can
\* push as soon as the open queue has a free slot.
C3_BoundedAdmission ==
    /\ [](Len(jobQueue) <= QueueFactor * workers)
    /\ [](\A c \in Callers :
            (cpc[c] = "send" /\ ~queueClosed /\ Len(jobQueue) < QueueFactor * workers)
                => ENABLED SubmitEnqueue(c))
    /\ [][\A c \in Callers :
            BlockedOnFullQueue(c) => (cpc'[c] = "send" /\ ~hist'[c].pushed)]_vars

\* C3 witness: every worker is inside a render, the queue is full and one more
\* Submit is blocked on its push.
C3_Witness ==
    /\ \A w \in Workers : wpc[w] = "engine"
    /\ \E c \in Callers : BlockedOnFullQueue(c)

\* the caller of job c got (screens, err) from Submit without its own context
\* having been cancelled
ReturnedUncancelled(c) == cpc[c] = "done" /\ ~ctxDone[c]

\* C4 as claimed: a job in flight when Stop is called has its engine call run to its
\* natural end (Stop does not cancel it) and its caller receives the job's outcome,
\* not the shutdown error.
C4_InFlightJobsFinish ==
    \A c \in Callers :
        hist[c].inFlightAtStop =>
            /\ \A w \in Workers :
                  wjob[w] = c => wres[w].Error # ErrRunApplet(CtxCanceled)
            /\ ReturnedUncancelled(c) =>
                  /\ ret[c].Error # ErrShuttingDown
                  /\ ret[c].Error # ErrRunApplet(CtxCanceled)

\* C5 as claimed: the caller of a job that was queued and unclaimed when Stop was
\* called returns the shutdown error and never the job's render outcome.
C5_QueuedJobsGetShutdown ==
    \A c \in Callers :
        (hist[c].queuedAtStop /\ ReturnedUncancelled(c)) =>
            ret[c] = PoolResult(NilScreens, ErrShuttingDown)

\* C6: when Stop has returned every worker has exited its loop, so none is
\* rendering and none will claim a job; and Stop, once called, does return.
C6_StopWaitsForWorkers ==
    /\ [](stopPc = "returned" =>
            /\ wg = 0
            /\ \A w \in Workers : wpc[w] = "exited" /\ wjob[w] = 0
            /\ renderMu = 0)
    /\ (stopPc # "none") ~> (stopPc = "returned")

\* C6 witness: Stop has returned after waiting for a job that was being rendered
\* when it was called.
C6_Witness ==
    /\ stopPc = "returned"
    /\ \E c \in Callers : hist[c].inFlightAtStop /\ hist[c].sends = 1

\* C7 as claimed: a Submit that starts after Stop has cancelled the pool's context
\* does not panic, never has its job rendered, and returns the shutdown error.
C7_SubmitAfterStopFailsFast ==
    \A c \in Callers :
        hist[c].afterStop =>
            /\ cpc[c] # "panic"
            /\ hist[c].engineCalls = 0
            /\ ReturnedUncancelled(c) => ret[c] = PoolResult(NilScreens, ErrShuttingDown)

C9_AppNotFound ==
    \A c \in Callers :
        hist[c].absentAtLookup =>
            /\ ~InvalidAppID(req[c].AppID)
            /\ hist[c].locks = 0
            /\ hist[c].engineCalls = 0
            /\ \A w \in Workers :
                  wjob[w] = c =>
                      /\ wpc[w] = "deliver"
                      /\ wres[w] = PoolResult(NilScreens, ErrAppNotFound(req[c].AppID))
            /\ cpc[c] = "done" =>
                  /\ ret[c].Screens = NilScreens
                  /\ ret[c].Error \in {ErrAppNotFound(req[c].AppID), CtxCanceled, ErrShuttingDown}
                  /\ ret[c].Error = CtxCanceled => ctxDone[c]
                  /\ ret[c].Error = ErrShuttingDown => poolCtxDone
                  /\ op[c].name = "RenderApp" =>
                        /\ record[c].err = ret[c].Error
                        /\ record[c].result.Error = TRUE

\* C9 witness: RenderApp returned "app not found: <app id>" for an app the registry
\* lacked.
C9_Witness ==
    \E c \in Callers :
        /\ cpc[c] = "done"
        /\ req[c].AppID = Ghost
        /\ record[c].err = <<"app not found: ", "g", "h">>
        /\ hist[c].lookups = 1

\* C10: an empty drawable tree gives failed=false, render_output "" and a nil error;
\* a failed Submit or engine call gives failed=true and render_output "".
C10_EmptyIsNotFailed ==
    \A c \in Callers :
        (cpc[c] = "done" /\ op[c].name = "RenderApp") =>
            /\ (ret[c].Error = NoError /\ ret[c].Screens.Empty) =>
                  /\ record[c].result.Error = FALSE
                  /\ record[c].result.RenderOutput = <<>>
                  /\ record[c].err = NoError
            /\ ret[c].Error # NoError =>
                  /\ record[c].result.Error = TRUE
                  /\ record[c].result.RenderOutput = <<>>
                  /\ record[c].err = ret[c].Error

\* C10 witness: one render returned an empty tree and another failed in the engine;
\* their records differ in the failed flag and both have an empty render_output.
C10_Witness ==
    \E c \in Callers, d \in Callers :
        /\ cpc[c] = "done" /\ cpc[d] = "done"
        /\ ret[c].Error = NoError /\ ret[c].Screens.Empty /\ ~ret[c].Screens.Nil
        /\ ret[d].Error = ErrRunApplet(ScriptFail)
        /\ record[c].result.Error = FALSE /\ record[d].result.Error = TRUE
        /\ record[c].result.RenderOutput = record[d].result.RenderOutput

\* RenderApp has returned to caller c: called directly, or by Handle for a stream
\* message or an AMQP delivery
RenderAppReturned(c) ==
    \/ op[c].name = "RenderApp" /\ cpc[c] = "done"
    \/ /\ op[c].name = "Message" /\ cpc[c] \in {"publish", "ack", "done"}
       /\ msg[c].payload = "request" /\ ValidationError(msg[c]) = NoError
    \/ /\ op[c].name = "Delivery" /\ cpc[c] \in {"publishResult", "done"}
       /\ msg[c].payload = "request" /\ ValidationError(msg[c]) = NoError

\* C11: RenderApp returns no record before Submit has returned and one non-nil record
\* when it has, on every path; the record carries the request's uuid, device id and
\* app id, and a record with failed=true has an empty render_output.
C11_OneRecordPerCall ==
    \A c \in Callers :
        /\ (op[c].name # "RenderPreview" /\ ~RenderAppReturned(c)) => record[c] = NoReturn
        /\ RenderAppReturned(c) =>
              /\ record[c].result # NilRecord
              /\ record[c].result.Type = "render_result"
              /\ record[c].result.UUID = c
              /\ record[c].result.DeviceID = req[c].Device.ID
              /\ record[c].result.AppID = req[c].AppID
              /\ record[c].result.Error => record[c].result.RenderOutput = <<>>
              /\ record[c].err # NoError => record[c].result.Error

\* C11 witness: one call returned an encoded image and another a failed record, each
\* with its own request's ids.
C11_Witness ==
    \E c \in Callers, d \in Callers :
        /\ RenderAppReturned(c) /\ RenderAppReturned(d)
        /\ req[c].Device.ID # req[d].Device.ID
        /\ record[c].result.RenderOutput = <<"U", "k", "l", "G", "R", "g", "=", "=">>
        /\ ~record[c].result.Error
        /\ record[d].result.Error /\ record[d].err = ErrRunApplet(ScriptFail)
        /\ record[d].result.DeviceID = req[d].Device.ID

\* the consumer goroutine c handles a message whose payload parsed as a request
ParsedMessage(c) == op[c].name = "Message" /\ msg[c].payload = "request"

\* C12: for a message whose payload parses as a render request the consumer hands
\* exactly one result to PublishRenderResult by the time it is through with the
\* message, none before Handle has returned, and that result carries the request's
\* uuid, device id and app id, whether validation rejected the request, the render
\* failed or it succeeded; other messages are acknowledged without a publish.
C12_OnePublishPerRequest ==
    \A c \in Callers :
        /\ Len(pub[c].attempts) <= 1
        /\ (op[c].name # "Delivery" /\ ~ParsedMessage(c)) => pub[c].attempts = <<>>
        /\ ParsedMessage(c) =>
              /\ Len(pub[c].attempts) = 1 <=> cpc[c] \in {"ack", "done"}
              /\ pub[c].acked => Len(pub[c].attempts) = 1
              /\ \A i \in 1..Len(pub[c].attempts) :
                    /\ pub[c].attempts[i].Type = "render_result"
                    /\ pub[c].attempts[i].UUID = c
                    /\ pub[c].attempts[i].DeviceID = msg[c].request.Device.ID
                    /\ pub[c].attempts[i].AppID = msg[c].request.AppID

\* C12 witness: a request that validation rejected for its type was answered with a
\* published result carrying its ids, and the message was acknowledged.
C12_Witness ==
    \E c \in Callers :
        /\ ParsedMessage(c) /\ cpc[c] = "done" /\ pub[c].acked
        /\ ValidationError(msg[c]) = ErrInvalidType("ping")
        /\ Len(pub[c].attempts) = 1
        /\ pub[c].attempts[1].AppID = Clock
        /\ pub[c].attempts[1].DeviceID = "d1"

\* RenderApp returned an engine failure or an encoding failure to caller c
RenderFailed(c) ==
    /\ RenderAppReturned(c)
    /\ record[c].err \in {ErrRunApplet(ScriptFail), ErrRunApplet(CtxDeadlineExceeded), ErrEncode}

\* C13 as claimed: when the render of a request fails in the engine or in the
\* encoder, the result the consumer publishes has failed=true and an empty
\* render_output.
C13_FailedRenderFlagged ==
    \A c \in Callers :
        (ParsedMessage(c) /\ RenderFailed(c)) =>
            \A i \in 1..Len(pub[c].attempts) :
                /\ pub[c].attempts[i].Error = TRUE
                /\ pub[c].attempts[i].RenderOutput = <<>>

\* caller c is inside Submit, in its first select (the push) or its second (the
\* wait for the result)
InSubmit(c) == cpc[c] \in {"send", "wait"}

\* no other case of the select caller c stands in is ready: the queue is full or
\* the result has not come, and the pool is not shutting down
OnlyCtxReady(c) ==
    /\ ~poolCtxDone
    /\ cpc[c] = "send" => (~queueClosed /\ Len(jobQueue) = queueCap)
    /\ cpc[c] = "wait" => Len(resultChan[c]) = 0

\* C14: a Submit whose context is cancelled while it is blocked, on the full
\* queue or on the wait for its result, can return at once, and what it returns
\* is the context's error; while no other case of its select is ready that
\* return is the only step the caller can take.
C14_CancelUnblocksSubmit ==
    \A c \in Callers :
        (InSubmit(c) /\ ctxDone[c]) =>
            /\ ENABLED (SubmitCtxDone(c) /\ ret'[c] = PoolResult(NilScreens, CtxCanceled)
                            /\ ~InSubmit(c)')
            /\ OnlyCtxReady(c) =>
                    ~ENABLED (\/ SubmitEnqueue(c) \/ SubmitSendPanic(c) \/ SubmitPoolDone(c)
                              \/ \E enc \in EncodeOutcomes : SubmitReceive(c, enc))

\* C14 witness: one Submit was cancelled while the queue was full and returned the
\* context's error without having queued its job, another was cancelled while it
\* waited for its result.
C14_Witness ==
    /\ Len(jobQueue) = queueCap
    /\ \E c \in Callers :
            /\ cpc[c] = "done" /\ ret[c].Error = CtxCanceled /\ ~hist[c].pushed
    /\ \E c \in Callers :
            /\ cpc[c] = "done" /\ ret[c].Error = CtxCanceled /\ hist[c].pushed

\* C15 as claimed: the engine's context descends from the caller's, so once the
\* caller of a job in the engine has cancelled, the engine call can end as
\* cancelled and give up the render lock before its timeout.
C15_CallerCancelsEngine ==
    \A w \in Workers :
        (wpc[w] = "engine" /\ ctxDone[wjob[w]]) =>
            /\ wctx[w].parent = "caller"
            /\ "canceled" \in EngineOutcomes(w)

\* worker w has made the context of its engine call and not yet delivered
HasEngineCtx(w) == wpc[w] \in {"lockwait", "locked", "engine", "unlock"}

Spawned == { w \in DOMAIN wpc : wpc[w] # "off" }

\* C17: a pool made with a worker count <= 0 has 4 workers, any other pool the
\* count it was given; the queue holds exactly twice the worker count; Start
\* spawns exactly that many workers, none before it, and registers each with the
\* wait group.
C17_WorkersAndQueue ==
    /\ run.workersArg <= 0 => workers = 4
    /\ run.workersArg > 0 => workers = run.workersArg
    /\ queueCap = 2 * workers
    /\ Len(jobQueue) <= 2 * workers
    /\ ~started => (Spawned = {} /\ wg = 0)
    /\ started =>
            /\ Cardinality(Spawned) = workers
            /\ wg = Cardinality({ w \in Spawned : wpc[w] # "exited" })

\* C17 witness: a pool made with a worker count of 0 or less is started and runs
\* four workers in front of a queue of eight.
C17_Witness ==
    /\ run.workersArg <= 0
    /\ started
    /\ Cardinality(Spawned) = 4
    /\ wg = 4
    /\ queueCap = 8
    /\ \E w \in Workers : wpc[w] = "engine"

\* the number a string of decimal digits written by "%d" stands for
DigitValue(ch) == CHOOSE d \in 0..9 : Digit(d) = ch
RECURSIVE DigitsValue(_)
DigitsValue(str) ==
    IF str = <<>> THEN 0
    ELSE 10 * DigitsValue(SubSeq(str, 1, Len(str) - 1)) + DigitValue(str[Len(str)])
DecimalValue(str) ==
    IF Len(str) > 0 /\ str[1] = "-" THEN 0 - DigitsValue(Tail(str)) ELSE DigitsValue(str)

\* C18: while a job is in the engine the global width and height are positive,
\* they are the device's where those are positive and 64 and 32 where they are
\* not, and the config's display_width and display_height are the decimal
\* strings of exactly the global values, whatever the caller's params held under
\* those keys; every other key of the config comes from the params.
C18_ResolvedDimensions ==
    \A w \in Workers :
        wpc[w] = "engine" =>
            LET dev == req[wjob[w]].Device
                params == req[wjob[w]].Params
            IN /\ globals.Width > 0 /\ globals.Height > 0
               /\ globals.Width = (IF dev.Width <= 0 THEN 64 ELSE dev.Width)
               /\ globals.Height = (IF dev.Height <= 0 THEN 32 ELSE dev.Height)
               /\ DOMAIN wcfg[w] = DOMAIN params \cup {"display_width", "display_height"}
               /\ DecimalValue(wcfg[w]["display_width"]) = globals.Width
               /\ DecimalValue(wcfg[w]["display_height"]) = globals.Height
               /\ wcfg[w]["display_width"][1] # "-"
               /\ wcfg[w]["display_height"][1] # "-"

\* C18 witness: a job whose params carry a display_width of their own is in the
\* engine with the device's width under that key.
C18_Witness ==
    \E w \in Workers :
        /\ wpc[w] = "engine"
        /\ "display_width" \in DOMAIN req[wjob[w]].Params
        /\ req[wjob[w]].Params["display_width"] = StrVal(<<"9">>)
        /\ wcfg[w]["display_width"] = <<"1", "0">>
        /\ globals.Width = 10

\* C19 as claimed: the swap of the registry reference is atomic, so a job whose
\* lookup comes after a swap has completed sees the registry that swap installed,
\* never an earlier one.
C19_LookupSeesCurrent ==
    \A c \in Callers : hist[c].lookups > 0 => ~hist[c].staleLookup

\* C20 as claimed: a RenderPreview call for a format that is not webp, whatever
\* its case, queues no job and reaches no engine call, and it returns the
\* unsupported-format error.
C20_UnsupportedFormatFailsFirst ==
    \A c \in Callers :
        (op[c].name = "RenderPreview" /\ ToLower(op[c].format) # Webp) =>
            /\ ~hist[c].pushed
            /\ hist[c].engineCalls = 0
            /\ cpc[c] = "done" => preview[c].err = ErrUnsupportedFormat(op[c].format)

\* C21: for a message that parsed as a request, XACK is called only once the
\* publish of its result has returned without error: the handler is at its
\* acknowledgement, or the message is acknowledged, only with one publish made
\* and successful, and a message whose publish failed is left unacknowledged.
C21_AckAfterPublish ==
    \A c \in Callers :
        ParsedMessage(c) =>
            /\ cpc[c] = "ack" => (pub[c].published /\ Len(pub[c].attempts) = 1)
            /\ pub[c].acked => (pub[c].published /\ Len(pub[c].attempts) = 1)
            /\ (Len(pub[c].attempts) = 1 /\ ~pub[c].published) =>
                    (cpc[c] = "done" /\ ~pub[c].acked /\ c \in PendingEntries)

\* C21 witness: a rendered request was published and then acknowledged.
C21_Witness ==
    \E c \in Callers :
        /\ ParsedMessage(c) /\ cpc[c] = "done"
        /\ record[c].err = NoError /\ record[c].result.RenderOutput # <<>>
        /\ pub[c].published /\ pub[c].acked

\* the handler of message c returned after its publish failed
PublishFailed(c) ==
    /\ ParsedMessage(c) /\ cpc[c] = "done"
    /\ Len(pub[c].attempts) = 1 /\ ~pub[c].published

\* C22 as claimed: a message whose result could not be published stays pending
\* and is among the entries a later read of the group hands to a handler again.
C22_FailedPublishRetried ==
    \A c \in Callers :
        PublishFailed(c) => (c \in PendingEntries /\ c \in ReadFromStream)

\* the AMQP consumer goroutine c handles a delivery
IsDelivery(c) == op[c].name = "Delivery"

\* C23: handleMessage makes exactly one Ack or Nack call on its delivery by the
\* time it returns and none before its last step: Nack without requeue for a
\* body that does not parse, Ack after a successful publish, Ack after a failed
\* publish of an error result, Nack with requeue after a failed publish of a
\* rendered result.
C23_SettledExactlyOnce ==
    \A c \in Callers :
        IsDelivery(c) =>
            /\ Len(pub[c].settled) <= 1
            /\ cpc[c] = "done" <=> Len(pub[c].settled) = 1
            /\ cpc[c] = "done" =>
                  LET failed == msg[c].Type # RequestType \/ msg[c].request.AppID = <<>>
                                  \/ msg[c].request.Device.ID = "" \/ ret[c].Error # NoError
                                  \/ record[c].err # NoError
                  IN pub[c].settled =
                        IF msg[c].payload # "request" THEN <<"nack">>
                        ELSE IF pub[c].published THEN <<"ack">>
                        ELSE IF failed THEN <<"ack">>
                        ELSE <<"nack requeue">>

\* C23 witness: a rendered result could not be published and its delivery was
\* rejected for requeue, once.
C23_Witness ==
    \E c \in Callers :
        /\ IsDelivery(c) /\ cpc[c] = "done"
        /\ record[c].err = NoError /\ record[c].result.RenderOutput # <<>>
        /\ Len(pub[c].attempts) = 1 /\ ~pub[c].published
        /\ pub[c].settled = <<"nack requeue">>

\* C24: a call_handler request for an existing app that names a handler and carries
\* no config is answered with 400, and the app's schema handler is not called
C24_MissingConfigRejected ==
    ( /\ http.kind = "call_handler" /\ http.served
      /\ http.appID \in http.registry /\ http.load = "ok" /\ http.hasSchema
      /\ http.body.json /\ http.body.handler_name # "" /\ ~http.body.config )
    => (http.response.status = 400 /\ ~http.response.invoked)

\* the ids of the fields the schema's generated fields resolve to
ResolvedIDs(x) ==
    LET ids == { x.fields[i].ID : i \in 1..Len(x.fields) }
        byID == [k \in ids |-> x.fields[CHOOSE i \in 1..Len(x.fields) :
                                  /\ x.fields[i].ID = k
                                  /\ \A j \in 1..Len(x.fields) : x.fields[j].ID = k => j <= i]]
        resolved(i) == ResolveGeneratedFields(x.fields[i], x.config, byID, x.answer).fields
    IN  UNION { { resolved(i)[j].ID : j \in 1..Len(resolved(i)) } :
                  i \in { k \in 1..Len(x.fields) : x.fields[k].Type = "generated" } }

\* C25: when ValidateConfig returns a list, the list holds one unknown_field error
\* for each config key that is neither a schema field id nor the id of a resolved
\* generated field, and none for any other; the response is valid exactly when
\* the list is empty; the caller's config is as it was
C25_UnknownFields ==
    (http.kind = "validate" /\ http.served /\ http.response.status = 200) =>
        LET known == { http.fields[i].ID : i \in 1..Len(http.fields) } \cup ResolvedIDs(http)
            errs == http.response.Errors
            unknown == { i \in 1..Len(errs) : errs[i].Code = "unknown_field" }
        IN  /\ \A key \in (DOMAIN http.config) \ known :
                  Cardinality({ i \in unknown : errs[i].Field = key }) = 1
            /\ \A i \in unknown : errs[i].Field \in (DOMAIN http.config) \ known
            /\ http.response.Valid <=> errs = <<>>
            /\ http.response.config = http.config

\* a config with a key of a resolved generated field and a key no field has
C25_Witness ==
    /\ http.kind = "validate" /\ http.served /\ http.response.status = 200
    /\ "x" \in DOMAIN http.config /\ "x" \in ResolvedIDs(http)
    /\ "u" \in DOMAIN http.config
    /\ \E i \in 1..Len(http.response.Errors) :
         http.response.Errors[i] = FieldError("u", "unknown_field")
    /\ ~http.response.Valid

\* C26: once LoadApps has succeeded, the registry holds one entry for each
\* sub-directory that had a manifest that parses and its star file at the last
\* successful call, and no other entry; entries that are no such directory do not
\* fail a load
C26_RegistryIsLastLoad ==
    (reg.loads > 0 /\ reg.good.any) =>
        /\ Cardinality(DOMAIN reg.apps) = Cardinality(reg.good.dirs)
        /\ { reg.apps[id].DirectoryPath : id \in DOMAIN reg.apps } = reg.good.dirs

\* C27: a Get through one context never returns what another context set, and
\* FlushApp through one context deletes no key another context set
C27_ContextsIsolated ==
    /\ \A c \in rcache.got.of : c = rcache.got.by
    /\ \A c \in rcache.flushed.of : c = rcache.flushed.by

\* C28: the render mutex is held exactly while some worker is between Lock and
\* Unlock, and by that worker; a worker whose renderScreens has returned does not
\* hold it, whether the engine succeeded or failed; a job renderScreens rejected
\* before the engine never locked it
C28_LockAroundEngine ==
    /\ renderMu = 0 <=> ~\E w \in Workers : InLockedSection(w)
    /\ \A w \in Workers :
        /\ InLockedSection(w) => renderMu = w
        /\ wpc[w] \in {"deliver", "idle", "panic", "exited"} => renderMu # w
        /\ (wpc[w] = "deliver" /\ hist[wjob[w]].engineCalls = 0) => hist[wjob[w]].locks = 0
        /\ wjob[w] # 0 => hist[wjob[w]].locks <= 1

\* renderScreens has returned the engine's failure and the mutex is free
C28_Witness ==
    \E w \in Workers :
        /\ wpc[w] = "deliver"
        /\ wres[w].Error = ErrRunApplet(ScriptFail)
        /\ hist[wjob[w]].locks = 1
        /\ renderMu = 0

\* worker w's next step writes process-wide engine state: past the id check
\* renderScreens installs the cache and the HTTP client, and once it has the lock it
\* sets the dimension globals
WritesEngineState(w) ==
    \/ wpc[w] = "prepare" /\ ~InvalidAppID(req[wjob[w]].AppID)
    \/ wpc[w] = "locked"

\* C29: a worker writes process-wide engine state (the dimension globals, the
\* cache and the HTTP client installed with InitCache and InitHTTP) only while it
\* holds the render mutex
C29_EngineStateUnderLock ==
    \A w \in Workers : WritesEngineState(w) => renderMu = w

\* C30: jobs are claimed in the order they were pushed: the queue changes only by
\* a push at its tail or by a worker taking its head, and a worker that takes a job
\* takes the head, so no job is claimed before one pushed earlier
C30_ClaimedInPushOrder ==
    [][ /\ \A w \in Workers :
             (wjob[w] = 0 /\ wjob'[w] # 0) =>
                 /\ jobQueue # <<>>
                 /\ wjob'[w] = Head(jobQueue)
                 /\ jobQueue' = Tail(jobQueue)
        /\ jobQueue' # jobQueue =>
             \/ \E c \in Callers : jobQueue' = Append(jobQueue, c)
             \/ /\ jobQueue # <<>>
                /\ jobQueue' = Tail(jobQueue)
                /\ \E w \in Workers : wjob[w] = 0 /\ wjob'[w] = Head(jobQueue) ]_vars

\* a worker has just claimed the job pushed first while the job pushed after it
\* waits in the queue and another worker is idle
C30_Witness ==
    \E w, v \in Workers :
        /\ wpc[w] = "prepare" /\ wjob[w] = 1
        /\ jobQueue = <<2>>
        /\ wpc[v] = "idle"

\* C31: no more than maxWorkers handlers are inside handleStreamMessage at a time
\* (8 when NewConsumer was given maxWorkers <= 0): every handler started holds a
\* semaphore slot until it ends, and gives back exactly that one
C31_HandlersBounded ==
    cons.pc # "none" =>
        /\ cons.handling <= cons.maxWorkers
        /\ cons.maxWorkers = (IF cons.arg <= 0 THEN 8 ELSE cons.arg)
        /\ cons.sem = cons.handling + cons.releasing
        /\ cons.sem <= cons.maxWorkers

\* a consumer made with maxWorkers = 0 runs 8 handlers, with a ninth message waiting
\* for a slot
C31_Witness ==
    /\ cons.pc = "dispatch"
    /\ cons.arg = 0
    /\ cons.handling = 8
    /\ cons.pending > 0

\* C32: Start has returned only when no handler that was started is still running,
\* and once Stop has cancelled the context Start does return
C32_StopWaitsForHandlers ==
    /\ [](cons.pc = "returned" => Handlers = 0)
    /\ (cons.pc # "none" /\ cons.ctxDone) ~> (cons.pc = "returned")

\* Stop has come and consumeMessages waits for two handlers that are still running
C32_Witness ==
    /\ cons.pc = "wait"
    /\ cons.ctxDone
    /\ cons.handling = 2
    /\ ENABLED HandlerReturn /\ ~ENABLED WaitReturn

\* C33: in Start's loop the retry delay lies between 1 s and 30 s; when a session
\* that had connected and registered its consumer has ended, the delay is 1 s and
\* the retry count 0 again; Start has returned only if its context is cancelled
C33_BackoffResets ==
    conn.pc # "none" =>
        /\ Second <= conn.retryDelay /\ conn.retryDelay <= MaxRetryDelay
        /\ (conn.pc = "backoff" /\ conn.registered) =>
               (conn.retryDelay = Second /\ conn.retryCount = 0)
        /\ conn.pc = "returned" => conn.ctxDone

\* Handle returned an error for delivery c: the request was rejected or RenderApp failed
HandlingFailed(c) == HandleReturn(c, msg[c], record[c]).err # NoError

C35_DeliveryNeverBlocks ==
    \A w \in Workers :
        /\ wpc[w] # "panic"
        /\ wpc[w] = "deliver" =>
              /\ ~chanClosed[wjob[w]]
              /\ Len(resultChan[wjob[w]]) + Len(Outcome(w)) <= ResultChanCap

\* C35 witness: a caller's Submit returned on its cancelled context while its job
\* was being rendered, and the worker has since sent the outcome and closed the
\* channel: the outcome stays in the buffer
C35_Witness ==
    \E c \in Callers :
        /\ cpc[c] = "done" /\ ret[c].Error = CtxCanceled
        /\ hist[c].claims = 1
        /\ chanClosed[c] /\ Len(resultChan[c]) = 1
        /\ \A w \in Workers : wjob[w] # c

\* the outcomes renderScreens can compute from caller c's app id, params and device
OwnOutcomes(c) ==
    { PoolResult(NilScreens, PrepareError(req[c].AppID, registry, load)) :
          registry \in Registries, load \in LoadOutcomes }
    \cup { PoolResult(Screens(empty, JobDims(c).Width, JobDims(c).Height), NoError) :
               empty \in BOOLEAN }
    \cup { PoolResult(NilScreens, ErrRunApplet(inner)) :
               inner \in {ScriptFail, CtxDeadlineExceeded, CtxCanceled} }

\* C36: what a job's result channel holds, and the render outcome a Submit call
\* returned, is an outcome computed from that call's own app id, params and
\* device: the worker rendered the job with the configuration of its own request
C36_OwnOutcome ==
    \A c \in Callers :
        /\ \A w \in Workers :
              (wjob[w] = c /\ wcfg[w] # NoConfig) => wcfg[w] = EngineConfig(req[c])
        /\ \A i \in 1..Len(resultChan[c]) :
              /\ resultChan[c][i] \in OwnOutcomes(c)
              /\ resultChan[c][i] # NoResult
        /\ (hist[c].pushed /\ cpc[c] \notin {"idle", "send", "wait", "panic"}
              /\ ret[c].Error \notin {CtxCanceled, ErrShuttingDown}) =>
              (ret[c] \in OwnOutcomes(c) /\ ret[c] # NoResult)

\* C36 witness: two Submit calls for different requests have returned render
\* outcomes, each its own
C36_Witness ==
    \E c \in Callers, d \in Callers :
        /\ c # d /\ cpc[c] = "done" /\ cpc[d] = "done"
        /\ req[c] # req[d]
        /\ hist[c].sends = 1 /\ hist[d].sends = 1
        /\ ret[c].Error \notin {CtxCanceled, ErrShuttingDown}
        /\ ret[d].Error \notin {CtxCanceled, ErrShuttingDown}
        /\ ret[c] \notin OwnOutcomes(d)
        /\ ret[d] \notin OwnOutcomes(c)

\* the jobs taken off the queue whose outcome has not been sent yet
TakenNotDelivered == { c \in Callers : hist[c].claims > hist[c].sends }

\* C37: the jobs taken off the queue and not yet delivered are at most as many as
\* the pool has workers; each of them is held by exactly one worker, and a worker
\* waits for the next job only when it holds none
C37_InFlightBounded ==
    /\ Cardinality(TakenNotDelivered) <= workers
    /\ \A c \in TakenNotDelivered : Cardinality({ w \in Workers : wjob[w] = c }) = 1
    /\ \A w \in Workers :
          /\ wjob[w] # 0 => wjob[w] \in TakenNotDelivered
          /\ wpc[w] \in {"idle", "exited"} => wjob[w] = 0

\* C37 witness: the only worker of a pool is rendering a job while another job
\* waits in the queue
C37_Witness ==
    /\ workers = 1
    /\ Cardinality(TakenNotDelivered) = 1
    /\ Len(jobQueue) >= 1
    /\ \E w \in Workers : wpc[w] = "engine"

\* no call of RefreshAppRegistry is under way
RefreshesCompleted == \A r \in Refreshers : proc.rpc[r] \in {"idle", "returned"}

\* C38 as claimed: once the calls of RefreshAppRegistry made so far, concurrent
\* ones included, have completed, the Processor and its pool hold the same registry
C38_RegistriesAgree ==
    (proc.pc # "none" /\ RefreshesCompleted) => proc.appRegistry = proc.poolRegistry

\* a step in which a call of RefreshAppRegistry fails to load the apps directory
FailedRefreshStep ==
    /\ proc.pc # "none"
    /\ proc'.calls = proc.calls + 1
    /\ \A r \in Refreshers : proc'.rpc[r] = "assign" => proc.rpc[r] = "assign"

\* C39: a call of RefreshAppRegistry that fails to load the apps directory returns
\* the error and writes neither p.appRegistry nor the pool's registry, and the
\* registries the two point to hold the apps they held before the call
C39_FailedRefreshKeepsRegistries ==
    [][FailedRefreshStep =>
          /\ \E r \in Refreshers :
                proc'.rpc[r] = "returned" /\ proc'.ret[r] = ErrLoadApps(ErrReadDir)
          /\ proc'.appRegistry = proc.appRegistry
          /\ proc'.poolRegistry = proc.poolRegistry
          /\ proc'.objs[proc'.appRegistry] = proc.objs[proc.appRegistry]
          /\ proc'.objs[proc'.poolRegistry] = proc.objs[proc.poolRegistry]]_vars

\* C39 witness: after a refresh that succeeded, a call has failed and returned its
\* error, and the registry in use still holds apps
C39_Witness ==
    /\ proc.pc # "none" /\ proc.done >= 1 /\ RefreshesCompleted
    /\ \E r \in Refreshers : proc.rpc[r] = "returned" /\ proc.ret[r] = ErrLoadApps(ErrReadDir)
    /\ proc.appRegistry # 1
    /\ proc.objs[proc.appRegistry] # NoApps
    /\ proc.objs[Len(proc.objs)] = NoApps

\* Submit has returned to caller c
SubmitReturned(c) == c \in Callers /\ cpc[c] \in {"done", "publish", "publishResult", "ack"}

\* C40 as claimed: with engine calls that end and workers and callers scheduled
\* fairly, every call of Submit on a started pool eventually returns
C40_SubmitReturns ==
    \A c \in 1..MaxCallers : (c \in Callers /\ InSubmit(c)) ~> SubmitReturned(c)

\* every call of Submit eventually returns or panics on the closed queue
SubmitReturnsOrPanics ==
    \A c \in 1..MaxCallers : (c \in Callers /\ InSubmit(c)) ~> (SubmitReturned(c) \/ (c \in Callers /\ cpc[c] = "panic"))

====
